---- MODULE Spec2Model ----
(***************************************************************************)
(* A model of the receive path of the UAVCAN/CAN v1 transport of           *)
(* canadensis: Receiver::accept (canadensis_can/src/rx.rs) with its        *)
(* subscriptions, per-source sessions, expiry, CAN identifier parsing and  *)
(* tail byte, fed by transmitting nodes that fragment transfers into       *)
(* frames.  Buildup, TransferCrc and the transmitter are modelled from     *)
(* their specification (their source files are not part of the tree).      *)
(***************************************************************************)
EXTENDS Integers, Sequences, FiniteSets, TLC

VARIABLES
    rx,     \* the Receiver: subscription lists, own node id, counters
    now,    \* the clock from which frame timestamps are taken
    wire,   \* per transmitting node: the transfer it is emitting, frame by frame
    call,   \* the last call: its arguments and what it returned
    this_node, \* the Node that owns the receiver: its publishers, its requesters
               \* and the transfers it pushed to its transmitter
    app        \* the application: the tokens it holds (handed out by the node and
               \* not consumed), the AnonymousPublisher it owns, the last call
               \* of its TransferHandler

vars == <<rx, now, wire, call, this_node, app>>

(***************************************************************************)
(* Bit extraction (trait GetBits)                                          *)
(***************************************************************************)
bit_set(bits, offset) == (bits \div (2 ^ offset)) % 2 = 1

get_u8(bits, offset) == (bits \div (2 ^ offset)) % 256

get_u16(bits, offset) == (bits \div (2 ^ offset)) % 65536

(***************************************************************************)
(* Tail byte                                                               *)
(***************************************************************************)
\* A parse that loses the transfer id.
TailByte_parse_without_transfer_id(bits) ==
    [start |-> bit_set(bits, 7), end |-> bit_set(bits, 6), toggle |-> bit_set(bits, 5),
     transfer_id |-> 0]

TailByte_parse(bits) ==
    [start |-> bit_set(bits, 7),
     end |-> bit_set(bits, 6),
     toggle |-> bit_set(bits, 5),
     transfer_id |-> bits % 32]

\* The transmitter's side of the tail byte: start<<7 | end<<6 | toggle<<5 | transfer_id
make_tail_byte(start, end, toggle, transfer_id) ==
    (IF start THEN 128 ELSE 0) + (IF end THEN 64 ELSE 0)
        + (IF toggle THEN 32 ELSE 0) + transfer_id

(***************************************************************************)
(* CAN identifier                                                          *)
(***************************************************************************)
\* parse_can_id without its first check: an identifier with bit 23 set is
\* parsed like any other.
parse_can_id_ignoring_bit23(bits) ==
    LET priority == get_u8(bits, 26)
        source_id == get_u8(bits, 0) % 128
    IN  IF bit_set(bits, 25)
        THEN [ok |-> TRUE,
              header |-> [source |-> source_id, priority |-> priority,
                          kind |-> [kind |-> IF bit_set(bits, 24) THEN "Request" ELSE "Response",
                                    service |-> get_u16(bits, 14) % 512,
                                    destination |-> get_u8(bits, 7) % 128]]]
        ELSE IF bit_set(bits, 7)
        THEN [ok |-> FALSE, error |-> "Bit7Set"]
        ELSE [ok |-> TRUE,
              header |-> [source |-> source_id, priority |-> priority,
                          kind |-> [kind |-> "Message",
                                    anonymous |-> bit_set(bits, 24),
                                    subject |-> get_u16(bits, 8) % 8192]]]

parse_can_id(bits) ==
    IF bit_set(bits, 23)
    THEN [ok |-> FALSE, error |-> "Bit23Set"]
    ELSE LET priority == get_u8(bits, 26)
             source_id == get_u8(bits, 0) % 128
         IN  IF bit_set(bits, 25)
             THEN [ok |-> TRUE,
                   header |-> [source |-> source_id, priority |-> priority,
                               kind |-> [kind |-> IF bit_set(bits, 24) THEN "Request" ELSE "Response",
                                         service |-> get_u16(bits, 14) % 512,
                                         destination |-> get_u8(bits, 7) % 128]]]
             ELSE IF bit_set(bits, 7)
             THEN [ok |-> FALSE, error |-> "Bit7Set"]
             ELSE [ok |-> TRUE,
                   header |-> [source |-> source_id, priority |-> priority,
                               kind |-> [kind |-> "Message",
                                         anonymous |-> bit_set(bits, 24),
                                         subject |-> get_u16(bits, 8) % 8192]]]

\* TransferKindHeader::kind, ::port_id, ::service_header and TransferHeader::is_anonymous
header_kind(header) == header.kind.kind

header_port_id(header) ==
    IF header.kind.kind = "Message" THEN header.kind.subject ELSE header.kind.service

is_service(header) == header.kind.kind # "Message"

is_anonymous(header) == header.kind.kind = "Message" /\ header.kind.anonymous

\* An identifier built with reserved bits 21 and 22 of a message clear.
make_can_id_reserved_clear(header) ==
    IF header.kind.kind = "Message"
    THEN header.priority * (2 ^ 26)
            + (IF header.kind.anonymous THEN 2 ^ 24 ELSE 0)
            + header.kind.subject * (2 ^ 8)
            + header.source
    ELSE header.priority * (2 ^ 26)
            + 2 ^ 25
            + (IF header.kind.kind = "Request" THEN 2 ^ 24 ELSE 0)
            + header.kind.service * (2 ^ 14)
            + header.kind.destination * (2 ^ 7)
            + header.source

\* The identifier the transmitter builds for a header: the layout parse_can_id
\* reads, with reserved bits 21 and 22 set on messages and bit 23 clear.
make_can_id(header) ==
    IF header.kind.kind = "Message"
    THEN header.priority * (2 ^ 26)
            + (IF header.kind.anonymous THEN 2 ^ 24 ELSE 0)
            + 3 * (2 ^ 21)
            + header.kind.subject * (2 ^ 8)
            + header.source
    ELSE header.priority * (2 ^ 26)
            + 2 ^ 25
            + (IF header.kind.kind = "Request" THEN 2 ^ 24 ELSE 0)
            + header.kind.service * (2 ^ 14)
            + header.kind.destination * (2 ^ 7)
            + header.source

(***************************************************************************)
(* Transfer CRC: CRC-16/CCITT-FALSE, polynomial 0x1021, initial value      *)
(* 0xFFFF, no reflection, no final xor                                     *)
(***************************************************************************)
RECURSIVE Xor(_, _)
Xor(a, b) ==
    IF a = 0 THEN b
    ELSE IF b = 0 THEN a
    ELSE (((a % 2) + (b % 2)) % 2) + 2 * Xor(a \div 2, b \div 2)

\* One byte added to a 16-bit CRC, most significant bit first, in the
\* byte-at-a-time form of the shift register with polynomial 0x1021:
\*   q = (crc >> 8) ^ byte;  q ^= q >> 4;
\*   crc = (crc << 8) ^ (q << 12) ^ (q << 5) ^ q
CrcAddByte(crc, byte) ==
    LET q == CHOOSE v \in {Xor(w, w \div 16) : w \in {Xor(crc \div 256, byte)}} : TRUE
    IN  Xor(Xor(Xor((crc * 256) % 65536, (q * 4096) % 65536), q * 32), q)

\* The bytes lo..hi added in order (split in halves to keep the evaluation shallow).
RECURSIVE CrcAddRange(_, _, _, _)
CrcAddRange(crc, bytes, lo, hi) ==
    IF lo > hi THEN crc
    ELSE IF lo = hi THEN CrcAddByte(crc, bytes[lo])
    ELSE LET mid == (lo + hi) \div 2
         IN  CHOOSE r \in {CrcAddRange(v, bytes, mid + 1, hi) :
                            v \in {CrcAddRange(crc, bytes, lo, mid)}} : TRUE

TransferCrc(bytes) ==
    CHOOSE r \in {CrcAddRange(65535, b, 1, Len(b)) : b \in {bytes}} : TRUE

(***************************************************************************)
(* Buildup: the reassembly of one transfer                                 *)
(***************************************************************************)
Buildup_new(transfer_id) ==
    [transfer_id |-> transfer_id, toggle |-> TRUE, frames |-> 0, transfer |-> <<>>]

\* Buildup::add.  memory_ok is whether the buffer can be extended.  The result
\* is the error, or the buildup after the frame and, when the frame ends the
\* transfer, the reassembled bytes.
Buildup_add(buildup, frame_data, memory_ok) ==
    LET tail == TailByte_parse(frame_data[Len(frame_data)])
        data == SubSeq(frame_data, 1, Len(frame_data) - 1)
    IN  IF buildup.frames = 0 /\ ~tail.start
        THEN [error |-> "InvalidStart"]
        ELSE IF tail.toggle # buildup.toggle
        THEN [error |-> "InvalidToggle"]
        ELSE IF ~memory_ok
        THEN [error |-> "OutOfMemory"]
        ELSE LET after == [buildup EXCEPT !.toggle = ~buildup.toggle,
                                          !.frames = buildup.frames + 1,
                                          !.transfer = buildup.transfer \o data]
             IN  [error |-> "None",
                  buildup |-> after,
                  done |-> tail.end,
                  transfer_data |-> after.transfer]

(***************************************************************************)
(* Sessions and subscriptions.  The 128 optional session slots of a        *)
(* subscription are a function from the node ids whose slot is occupied to *)
(* their session.                                                          *)
(***************************************************************************)
Session_new(transfer_timestamp, transfer_id) ==
    [transfer_timestamp |-> transfer_timestamp, buildup |-> Buildup_new(transfer_id)]

init_rx_sessions == <<>>

Subscription_new(timeout, payload_size_max, port_id) ==
    [sessions |-> init_rx_sessions,
     timeout |-> timeout,
     payload_size_max |-> payload_size_max,
     port_id |-> port_id]

has_session(subscription, node) == node \in DOMAIN subscription.sessions

session_mut(subscription, node) == subscription.sessions[node]

\* Session slot `node` of a subscription set to `session`.
put_session(subscription, node, session) ==
    [subscription EXCEPT !.sessions =
        [n \in (DOMAIN subscription.sessions) \cup {node} |->
            IF n = node THEN session ELSE subscription.sessions[n]]]

create_session(subscription, node, transfer_timestamp, transfer_id) ==
    put_session(subscription, node, Session_new(transfer_timestamp, transfer_id))

\* A destroy_session that empties every slot of the subscription.
destroy_all_sessions(subscription, node) ==
    [subscription EXCEPT !.sessions = init_rx_sessions]

\* A destroy_session that leaves the slot as it is.
destroy_no_session(subscription, node) == subscription

destroy_session(subscription, node) ==
    [subscription EXCEPT !.sessions =
        [n \in (DOMAIN subscription.sessions) \ {node} |-> subscription.sessions[n]]]

\* Instant::duration_since on a monotonic clock
duration_since(later, earlier) == later - earlier

(***************************************************************************)
(* Receiver                                                                *)
(***************************************************************************)
Receiver_new(id) ==
    [subscriptions_message |-> <<>>,
     subscriptions_response |-> <<>>,
     subscriptions_request |-> <<>>,
     id |-> id,
     transfer_count |-> 0,
     error_count |-> 0]

subscriptions_for_kind(r, kind) ==
    CASE kind = "Message" -> r.subscriptions_message
      [] kind = "Response" -> r.subscriptions_response
      [] kind = "Request" -> r.subscriptions_request

\* The receiver with the list for `kind` replaced (the &mut the source gets from
\* subscriptions_for_kind).
with_subscriptions(r, kind, subscriptions) ==
    CASE kind = "Message" -> [r EXCEPT !.subscriptions_message = subscriptions]
      [] kind = "Response" -> [r EXCEPT !.subscriptions_response = subscriptions]
      [] kind = "Request" -> [r EXCEPT !.subscriptions_request = subscriptions]

\* u64::wrapping_add(1); the counters of the model stay far below 2^64.
\* A u64 is held here as four 16-bit limbs, the least significant first, so
\* that the values next to 2^64 can be written down; the counters of the
\* receiver are the numbers these limbs stand for.
to_u64(count) == <<count % 65536, (count \div 65536) % 65536, 0, 0>>

from_u64(limbs) == limbs[1] + 65536 * (limbs[2] + 65536 * (limbs[3] + 65536 * limbs[4]))

\* The limbs plus a carry, the carry out of the last limb being dropped
RECURSIVE add_limbs(_, _)
add_limbs(limbs, carry) ==
    IF limbs = <<>> THEN <<>>
    ELSE <<(Head(limbs) + carry) % 65536>>
             \o add_limbs(Tail(limbs), (Head(limbs) + carry) \div 65536)

\* An addition that stays at u64::MAX.
u64_saturating_add(limbs, n) ==
    IF \A i \in DOMAIN limbs : limbs[i] = 65535 THEN limbs ELSE add_limbs(limbs, n)

\* u64::wrapping_add
u64_wrapping_add(limbs, n) == add_limbs(limbs, n)

increment_transfer_count(r) ==
    [r EXCEPT !.transfer_count = from_u64(u64_wrapping_add(to_u64(r.transfer_count), 1))]

increment_error_count(r) ==
    [r EXCEPT !.error_count = from_u64(u64_wrapping_add(to_u64(r.error_count), 1))]

\* An expiry step that removes nothing.
keep_all_sessions(subscriptions, time) == subscriptions

\* An expiry step that lets a session live one tick longer.
clean_sessions_later(subscriptions, time) ==
    [i \in DOMAIN subscriptions |->
        [subscriptions[i] EXCEPT !.sessions =
            LET sessions == subscriptions[i].sessions
                live == {n \in DOMAIN sessions :
                            ~(duration_since(time, sessions[n].transfer_timestamp)
                                > subscriptions[i].timeout + 1)}
            IN  [n \in live |-> sessions[n]]]]

clean_sessions_from_subscriptions(subscriptions, time) ==
    [i \in DOMAIN subscriptions |->
        [subscriptions[i] EXCEPT !.sessions =
            LET sessions == subscriptions[i].sessions
                live == {n \in DOMAIN sessions :
                            ~(duration_since(time, sessions[n].transfer_timestamp)
                                > subscriptions[i].timeout)}
            IN  [n \in live |-> sessions[n]]]]

clean_expired_sessions(r, time) ==
    [r EXCEPT
        !.subscriptions_message = clean_sessions_from_subscriptions(r.subscriptions_message, time),
        !.subscriptions_request = clean_sessions_from_subscriptions(r.subscriptions_request, time),
        !.subscriptions_response = clean_sessions_from_subscriptions(r.subscriptions_response, time)]

\* A sanity check that lets service frames for any node through.
frame_sanity_check_any_destination(local_id, frame) ==
    IF Len(frame.data) = 0
    THEN [ok |-> FALSE]
    ELSE LET tail_byte == TailByte_parse(frame.data[Len(frame.data)])
             parsed == parse_can_id(frame.id)
         IN  IF ~parsed.ok
             THEN [ok |-> FALSE]
             ELSE IF is_anonymous(parsed.header)
                     /\ ~(tail_byte.toggle /\ tail_byte.start /\ tail_byte.end)
             THEN [ok |-> FALSE]
             ELSE [ok |-> TRUE, header |-> parsed.header, tail |-> tail_byte]

\* Receiver::frame_sanity_check: the header and tail byte of a usable frame.
frame_sanity_check(local_id, frame) ==
    IF Len(frame.data) = 0
    THEN [ok |-> FALSE]
    ELSE LET tail_byte == TailByte_parse(frame.data[Len(frame.data)])
             parsed == parse_can_id(frame.id)
         IN  IF ~parsed.ok
             THEN [ok |-> FALSE]
             ELSE IF is_service(parsed.header) /\ parsed.header.kind.destination # local_id
             THEN [ok |-> FALSE]
             ELSE IF is_anonymous(parsed.header)
                     /\ ~(tail_byte.toggle /\ tail_byte.start /\ tail_byte.end)
             THEN [ok |-> FALSE]
             ELSE [ok |-> TRUE, header |-> parsed.header, tail |-> tail_byte]

\* A lookup that takes the first subscription of the list, whatever its port.
find_first_subscription(subscriptions, port_id) ==
    IF Len(subscriptions) = 0 THEN 0 ELSE 1

\* Index of the first subscription of the list with this port id, or 0.
find_subscription(subscriptions, port_id) ==
    LET matching == {i \in DOMAIN subscriptions : subscriptions[i].port_id = port_id}
    IN  IF matching = {} THEN 0
        ELSE CHOOSE i \in matching : \A j \in matching : i <= j

OkNone == [kind |-> "OkNone"]

OkSome(transfer) == [kind |-> "OkSome", transfer |-> transfer]

ErrOutOfMemory == [kind |-> "ErrOutOfMemory"]

\* A budget check that lets everything through.
never_too_long(session, frame, max_payload_length) == FALSE

\* "Check if this frame will make the transfer exceed the maximum length"
payload_too_long(session, frame, max_payload_length) ==
    Len(session.buildup.transfer) + (Len(frame.data) - 1) > max_payload_length

\* "Check if this frame is too late"
frame_too_late(session, frame, transfer_timeout) ==
    duration_since(frame.timestamp, session.transfer_timestamp) > transfer_timeout

\* A CRC check that accepts every buffer.
crc_unchecked(transfer_data) == TRUE

\* "Check CRC": the CRC of the whole reassembled buffer is zero.
crc_is_valid(transfer_data) == TransferCrc(transfer_data) = 0

\* A CRC removal that drops one byte only.
remove_one_byte(transfer_data) == SubSeq(transfer_data, 1, Len(transfer_data) - 1)

\* "Remove the CRC bytes from the transfer data"
remove_crc(transfer_data) == SubSeq(transfer_data, 1, Len(transfer_data) - 2)

\* A completed transfer stamped with the time of its last frame.
stamped_with_last_frame(session, frame, header, payload) ==
    [timestamp |-> frame.timestamp,
     header |-> header,
     transfer_id |-> session.buildup.transfer_id,
     payload |-> payload]

\* The transfer handed out on completion.
completed_transfer(session, frame, header, payload) ==
    [timestamp |-> session.transfer_timestamp,
     header |-> header,
     transfer_id |-> session.buildup.transfer_id,
     payload |-> payload]

\* What accept does with the session once it is gone for good: the session
\* is destroyed, an error is counted and nothing is returned.
give_up_silently(r, kind, i, source) ==
    LET subscriptions == subscriptions_for_kind(r, kind)
    IN  [rx |-> with_subscriptions(r, kind,
                    [subscriptions EXCEPT ![i] = destroy_session(subscriptions[i], source)]),
         ret |-> OkNone]

give_up(r, kind, i, source) ==
    LET subscriptions == subscriptions_for_kind(r, kind)
    IN  [rx |-> increment_error_count(with_subscriptions(r, kind,
                    [subscriptions EXCEPT ![i] = destroy_session(subscriptions[i], source)])),
         ret |-> OkNone]

\* A handling of the buildup's errors that hands OutOfMemory to the caller.
buildup_error_returned(r, kind, i, source, error) ==
    IF error = "OutOfMemory"
    THEN [rx |-> give_up(r, kind, i, source).rx, ret |-> ErrOutOfMemory]
    ELSE give_up(r, kind, i, source)

\* The arms of accept for Err(BuildupError::OutOfMemory) and for
\* Err(BuildupError::InvalidToggle | BuildupError::InvalidStart): each
\* destroys the session, counts an error and returns Ok(None).
buildup_error(r, kind, i, source, error) ==
    CASE error = "OutOfMemory" -> give_up(r, kind, i, source)
      [] error \in {"InvalidToggle", "InvalidStart"} -> give_up(r, kind, i, source)

\* Part 2 of Receiver::accept, for the subscription at index i of the list of
\* the frame's kind.  memory is which allocation fails, if any: "session" for
\* the new session, "buffer" for the buildup's buffer.
accept_subscribed(r, kind, i, header, tail, frame, memory) ==
    LET subscriptions == subscriptions_for_kind(r, kind)
        subscription == subscriptions[i]
        max_payload_length == subscription.payload_size_max
        transfer_timeout == subscription.timeout
        source == header.source
    IN  IF has_session(subscription, source)
           /\ session_mut(subscription, source).buildup.transfer_id # tail.transfer_id
        THEN [rx |-> r, ret |-> OkNone]
        ELSE IF ~has_session(subscription, source) /\ ~tail.start
        THEN [rx |-> r, ret |-> OkNone]
        ELSE IF ~has_session(subscription, source) /\ memory = "session"
        THEN [rx |-> increment_error_count(r), ret |-> ErrOutOfMemory]
        ELSE
        LET selected == IF has_session(subscription, source)
                        THEN subscription
                        ELSE create_session(subscription, source, frame.timestamp,
                                            tail.transfer_id)
            session == session_mut(selected, source)
            r1 == with_subscriptions(r, kind, [subscriptions EXCEPT ![i] = selected])
        IN  IF payload_too_long(session, frame, max_payload_length)
            THEN give_up(r1, kind, i, source)
            ELSE IF frame_too_late(session, frame, transfer_timeout)
            THEN give_up(r1, kind, i, source)
            ELSE
            LET added == Buildup_add(session.buildup, frame.data, memory # "buffer")
            IN  IF added.error # "None"
                THEN buildup_error(r1, kind, i, source, added.error)
                ELSE IF ~added.done
                THEN [rx |-> with_subscriptions(r, kind,
                                [subscriptions EXCEPT ![i] =
                                    put_session(selected, source,
                                        [session EXCEPT !.buildup = added.buildup])]),
                      ret |-> OkNone]
                ELSE IF added.buildup.frames > 1 /\ ~crc_is_valid(added.transfer_data)
                THEN give_up(r1, kind, i, source)
                ELSE
                LET payload == IF added.buildup.frames > 1
                               THEN remove_crc(added.transfer_data)
                               ELSE added.transfer_data
                    transfer == completed_transfer(session, frame, header, payload)
                IN  [rx |-> increment_transfer_count(with_subscriptions(r, kind,
                                [subscriptions EXCEPT ![i] = destroy_session(selected, source)])),
                     ret |-> OkSome(transfer)]

\* An accept that looks at the frame first and expires sessions only for a
\* frame that passes the sanity check.
accept_checking_first(r, frame, memory) ==
    LET checked == frame_sanity_check(r.id, frame)
        cleaned == clean_expired_sessions(r, frame.timestamp)
    IN  IF ~checked.ok
        THEN [rx |-> increment_error_count(r), ret |-> OkNone]
        ELSE LET kind == header_kind(checked.header)
                 i == find_subscription(subscriptions_for_kind(cleaned, kind),
                                        header_port_id(checked.header))
             IN  IF i = 0
                 THEN [rx |-> cleaned, ret |-> OkNone]
                 ELSE accept_subscribed(cleaned, kind, i, checked.header, checked.tail,
                                        frame, memory)

\* Receiver::accept: the receiver after the call and the value returned.
accept(r, frame, memory) ==
    LET cleaned == clean_expired_sessions(r, frame.timestamp)
        checked == frame_sanity_check(cleaned.id, frame)
    IN  IF ~checked.ok
        THEN [rx |-> increment_error_count(cleaned), ret |-> OkNone]
        ELSE LET kind == header_kind(checked.header)
                 i == find_subscription(subscriptions_for_kind(cleaned, kind),
                                        header_port_id(checked.header))
             IN  IF i = 0
                 THEN [rx |-> cleaned, ret |-> OkNone]
                 ELSE accept_subscribed(cleaned, kind, i, checked.header, checked.tail,
                                        frame, memory)

\* An unsubscribe that removes nothing.
unsubscribe_nothing(r, kind, port_id) == r

\* Receiver::subscribe and Receiver::unsubscribe
unsubscribe(r, kind, port_id) ==
    with_subscriptions(r, kind,
        SelectSeq(subscriptions_for_kind(r, kind), LAMBDA sub : sub.port_id # port_id))

subscribe(r, kind, port_id, payload_size_max, timeout) ==
    LET removed == unsubscribe(r, kind, port_id)
    IN  with_subscriptions(removed, kind,
            Append(subscriptions_for_kind(removed, kind),
                   Subscription_new(timeout, payload_size_max, port_id)))

(***************************************************************************)
(* The transmitter: a transfer becomes one frame when the payload fits in  *)
(* mtu - 1 bytes; otherwise the payload followed by its CRC, big-endian,   *)
(* is cut into pieces of mtu - 1 bytes.  Each piece is followed by its     *)
(* tail byte; the toggle starts at 1 and alternates.                       *)
(***************************************************************************)
Min(a, b) == IF a <= b THEN a ELSE b

Transmitter_frames(payload, mtu, transfer_id) ==
    IF Len(payload) <= mtu - 1
    THEN << payload \o <<make_tail_byte(TRUE, TRUE, TRUE, transfer_id)>> >>
    ELSE LET crc == TransferCrc(payload)
             bytes == payload \o <<crc \div 256, crc % 256>>
             count == (Len(bytes) + (mtu - 2)) \div (mtu - 1)
         IN  [k \in 1..count |->
                SubSeq(bytes, (k - 1) * (mtu - 1) + 1, Min(k * (mtu - 1), Len(bytes)))
                    \o <<make_tail_byte(k = 1, k = count, k % 2 = 1, transfer_id)>>]

(***************************************************************************)
(* The bounds of the model and the inputs of its environment               *)
(***************************************************************************)
MaxTime == 2            \* the clock runs from 0 to MaxTime

MaxCounted == 2         \* Spec stops the traffic once the two counters add up to this

TransferTimeout == 1    \* the timeout every subscription is made with

LocalId == 42           \* the node id the receiver is created with

ClassicMtu == 8         \* the MTU the transmitting nodes of Spec use

NodeA == 59             \* a transmitting node whose frames may be damaged or lost

NodeB == 123            \* a transmitting node whose frames arrive as sent

Nodes == {NodeA, NodeB}

StrayNode == 117         \* the source of the other traffic on the bus

TheSubject == 4919      \* the subject the nodes publish on

TheService == 430

Nominal == 4            \* Priority::Nominal

Pattern(n) == [i \in 1..n |-> i]

\* Payload lengths: one frame; three frames, 15 bytes with the CRC; four
\* frames, 22 bytes with the CRC.
PayloadLengths(n) == IF n = NodeA THEN {2, 13, 20} ELSE {13}

\* The transfer id of the transfer node n sends.
FirstTransferId(n) == IF n = NodeA THEN 0 ELSE 31

Faults(n) == IF n = NodeA THEN {"none", "toggle", "corrupt", "memory"} ELSE {"none"}

PayloadSizes == {6, 13, 22}     \* payload_size_max of the subscriptions made

Memory == {"ok", "session", "buffer"}

message_header(source) ==
    [source |-> source, priority |-> Nominal,
     kind |-> [kind |-> "Message", anonymous |-> FALSE, subject |-> TheSubject]]

service_header(kind, destination) ==
    [source |-> StrayNode, priority |-> Nominal,
     kind |-> [kind |-> kind, service |-> TheService, destination |-> destination]]

\* Node::new and CoreNode::new: both maps empty.  type tells the two apart.
Node_new(type) ==
    [type |-> type, publishers |-> <<>>, requesters |-> <<>>, transmitter |-> <<>>]

\* The application before it has called the node: no SubscriptionToken
\* (PublishToken), no ServiceToken and no ResponseToken in hand, no
\* AnonymousPublisher, an empty Transmitter of its own, no transfer handled.
\* published and anonymous_published count the calls made through each
\* Publisher and through the AnonymousPublisher since it was constructed,
\* requested the requests made through each Requester to each destination.
NoPublisher == [state |-> "none"]

NotHandled == [handler |-> "none"]

App_new ==
    [publish_tokens |-> {}, service_tokens |-> {}, response_tokens |-> {},
     anonymous_publisher |-> NoPublisher, handled |-> NotHandled,
     transmitter |-> <<>>, published |-> <<>>, anonymous_published |-> 0,
     requested |-> <<>>]

\* The counts without those of a service's requester
WithoutService(counts, service) ==
    [k \in {d \in DOMAIN counts : d[1] # service} |-> counts[k]]

\* The count of a key, 0 when nothing was counted
CountOf(counts, key) == IF key \in DOMAIN counts THEN counts[key] ELSE 0

\* The count of key set to n
Counted(counts, key, n) ==
    [k \in DOMAIN counts \cup {key} |-> IF k = key THEN n ELSE counts[k]]

Idle == [state |-> "idle"]

NoCall == [kind |-> "none"]

WithoutTail(data) == SubSeq(data, 1, Len(data) - 1)

Frame(timestamp, id, data) == [timestamp |-> timestamp, id |-> id, data |-> data]

FlipToggle(data) ==
    [data EXCEPT ![Len(data)] =
        IF bit_set(data[Len(data)], 5) THEN data[Len(data)] - 32 ELSE data[Len(data)] + 32]

CorruptByte(data) == [data EXCEPT ![1] = (data[1] + 1) % 256]

\* The subscription a message of TheSubject is routed to, or 0.
the_subscription(r) == find_subscription(r.subscriptions_message, TheSubject)

(***************************************************************************)
(* The state after construction: Receiver::new, nothing subscribed, no     *)
(* node transmitting.                                                      *)
(***************************************************************************)
Init ==
    /\ app = App_new
    /\ this_node = Node_new("Node")
    /\ rx = Receiver_new(LocalId)
    /\ now = 0
    /\ wire = [n \in Nodes |-> Idle]
    /\ call = NoCall

Tick ==
    /\ now < MaxTime
    /\ now' = now + 1
    /\ call' = NoCall
    /\ UNCHANGED <<rx, wire, this_node, app>>

\* A node that has queued the frames of a transfer (Transmitter::push) and
\* handed none over yet, with the bookkeeping of what the receiver does with
\* them.
Sending(n, payload, mtu, transfer_id) ==
    [state |-> "sending",
     header |-> message_header(n),
     transfer_id |-> transfer_id,
     payload |-> payload,
     frames |-> Transmitter_frames(payload, mtu, transfer_id),
     next |-> 1,
     fault |-> "none",
     fault_at |-> 0,
     first_at |-> 0,
     payload_size_max |-> 0,
     subscribed |-> FALSE,
     late |-> FALSE,
     errors |-> 0,
     returned |-> <<>>,
     returned_at |-> 0]

\* Node n starts to emit a transfer.
StartTransfer(n, length) ==
    /\ wire[n].state = "idle"
    /\ wire' = [wire EXCEPT ![n] = Sending(n, Pattern(length), ClassicMtu, FirstTransferId(n))]
    /\ call' = NoCall
    /\ UNCHANGED <<rx, now, this_node, app>>

\* The bookkeeping of a node after the frame at w.next was handed to accept
\* (or lost): what the receiver r did with the transfer so far.
Handed(w, r, result, fault) ==
    LET i == the_subscription(r)
        first_at == IF w.next = 1 THEN now ELSE w.first_at
    IN  [w EXCEPT
            !.state = IF w.next = Len(w.frames) THEN "done" ELSE "sending",
            !.next = w.next + 1,
            !.fault = IF fault = "none" THEN w.fault ELSE fault,
            !.fault_at = IF fault = "none" THEN w.fault_at ELSE w.next,
            !.first_at = first_at,
            !.payload_size_max =
                IF w.next = 1 /\ i # 0 THEN r.subscriptions_message[i].payload_size_max
                ELSE w.payload_size_max,
            !.subscribed = IF w.next = 1 THEN i # 0 ELSE w.subscribed,
            !.late = w.late \/ (now - first_at > TransferTimeout),
            !.errors = w.errors + (result.rx.error_count - r.error_count),
            !.returned = IF result.ret.kind = "OkSome"
                         THEN Append(w.returned, result.ret.transfer) ELSE w.returned,
            !.returned_at = IF result.ret.kind = "OkSome" THEN w.next ELSE w.returned_at]

\* The frame node n hands over next, as sent or damaged.
NextFrame(n, fault) ==
    LET sent == wire[n].frames[wire[n].next]
    IN  Frame(now, make_can_id(wire[n].header),
              CASE fault = "toggle" -> FlipToggle(sent)
                [] fault = "corrupt" -> CorruptByte(sent)
                [] OTHER -> sent)

\* Whether node n can hand over its next frame with this fault while the
\* receiver's allocations go as `memory` says.  A transfer suffers at most
\* one fault.
CanDeliver(n, fault, memory) ==
    /\ wire[n].state = "sending"
    /\ fault # "none" => wire[n].fault = "none"
    /\ (fault = "memory") = (memory # "ok")
    /\ fault = "corrupt" => Len(wire[n].frames[wire[n].next]) > 1

\* The next frame of node n reaches the receiver.
Deliver(n, fault, memory) ==
    /\ CanDeliver(n, fault, memory)
    /\ \E frame \in {NextFrame(n, fault)} :
       \E result \in {accept(rx, frame, memory)} :
           /\ rx' = result.rx
           /\ call' = [kind |-> "accept", frame |-> frame, ret |-> result.ret,
                       memory |-> memory]
           /\ wire' = [wire EXCEPT ![n] = Handed(wire[n], rx, result, fault)]
    /\ UNCHANGED <<now, this_node, app>>

\* The next frame of node n is lost on the bus.
Lose(n) ==
    /\ n = NodeA
    /\ wire[n].state = "sending"
    /\ wire[n].fault = "none"
    /\ wire' = [wire EXCEPT ![n] =
            Handed(wire[n], rx, [rx |-> rx, ret |-> OkNone], "lost")]
    /\ call' = NoCall
    /\ UNCHANGED <<rx, now, this_node, app>>

\* The flow of transfers: the application subscribes to the subject, then
\* the nodes transmit while time passes.
SubscribeFirst(payload_size_max) ==
    /\ the_subscription(rx) = 0
    /\ rx' = subscribe(rx, "Message", TheSubject, payload_size_max, TransferTimeout)
    /\ call' = NoCall
    /\ UNCHANGED <<now, wire, this_node, app>>

NextFlow ==
    \/ \E size \in PayloadSizes : SubscribeFirst(size)
    \/ Tick
    \/ \E n \in Nodes : \E length \in PayloadLengths(n) : StartTransfer(n, length)
    \/ \E n \in Nodes : \E fault \in Faults(n), memory \in Memory : Deliver(n, fault, memory)
    \/ \E n \in Nodes : Lose(n)

SpecFlow == Init /\ [][NextFlow]_vars

(***************************************************************************)
(* The round trip: a receiver subscribed to the subject, and a node that   *)
(* has fragmented a payload for some MTU and hands the frames over in      *)
(* order, undamaged, while time passes.  The payload lengths are those     *)
(* whose frames need no padding: one byte, a full single frame, the        *)
(* shortest two-frame transfer, two full frames, and three frames.         *)
(***************************************************************************)
Mtus == {8, 12, 16, 20, 24, 32, 48, 64}

RoundTripLengths(mtu) == {1, mtu - 1, mtu, 2 * (mtu - 1) - 2, 2 * (mtu - 1) - 1}

\* payload_size_max of the subscription: one byte short of the payload, the
\* payload exactly, the payload and a CRC.
RoundTripSizes(length) == {length - 1, length, length + 2}

TransferIds == {0, 31}

InitRT ==
    /\ app = App_new
    /\ this_node = Node_new("Node")
    /\ now = 0
    /\ call = NoCall
    /\ \E mtu \in Mtus : \E length \in RoundTripLengths(mtu) :
       \E size \in RoundTripSizes(length), transfer_id \in TransferIds :
           /\ rx = subscribe(Receiver_new(LocalId), "Message", TheSubject, size,
                             TransferTimeout)
           /\ wire = [n \in Nodes |->
                        IF n = NodeA THEN Sending(n, Pattern(length), mtu, transfer_id)
                        ELSE Idle]

NextRT ==
    \/ Tick
    \/ Deliver(NodeA, "none", "ok")

SpecRT == InitRT /\ [][NextRT]_vars

(***************************************************************************)
(* The receiver under arbitrary traffic: any frame of the bus may arrive   *)
(* at any time, in any order, any number of times.                         *)
(***************************************************************************)
SingleFrame == <<1, make_tail_byte(TRUE, TRUE, TRUE, 0)>>

StartFrame == <<1, 2, 3, 4, 5, 6, 7, make_tail_byte(TRUE, FALSE, TRUE, 0)>>

\* The frames of a 13-byte message transfer of a node, transfer id 0.
TransferFrames == Transmitter_frames(Pattern(13), ClassicMtu, 0)

MessageFrames(n) ==
    {[id |-> make_can_id(message_header(n)), data |-> TransferFrames[k]] : k \in 1..3}

\* Service frames to this node and to another one, identifiers with reserved
\* bits set, a frame with no data, a multi-frame anonymous message.
StrayFrames ==
    {[id |-> make_can_id(service_header("Request", LocalId)), data |-> SingleFrame],
     [id |-> make_can_id(service_header("Request", LocalId + 1)), data |-> SingleFrame],
     [id |-> make_can_id(service_header("Response", LocalId + 1)), data |-> StartFrame],
     [id |-> make_can_id(message_header(StrayNode)) + 2 ^ 23, data |-> SingleFrame],
     [id |-> make_can_id(service_header("Request", LocalId)) + 2 ^ 23, data |-> SingleFrame],
     [id |-> make_can_id(message_header(StrayNode)) + 2 ^ 7, data |-> SingleFrame],
     [id |-> make_can_id(message_header(StrayNode)) + 2 ^ 24, data |-> StartFrame],
     [id |-> make_can_id(message_header(StrayNode)), data |-> <<>>]}

\* The first frame of another transfer of the same node: transfer id 1.
OtherTransferStart ==
    WithoutTail(TransferFrames[1]) \o <<make_tail_byte(TRUE, FALSE, TRUE, 1)>>

BusFrames ==
    MessageFrames(NodeA)
        \cup {[id |-> make_can_id(message_header(NodeB)), data |-> TransferFrames[1]]}
        \cup {[id |-> make_can_id(message_header(NodeA)), data |-> SingleFrame],
              [id |-> make_can_id(message_header(NodeA)), data |-> OtherTransferStart],
              [id |-> make_can_id(message_header(NodeA)), data |-> FlipToggle(TransferFrames[2])],
              [id |-> make_can_id(message_header(NodeA)), data |-> CorruptByte(TransferFrames[2])]}
        \cup StrayFrames

Subscribe(kind, port_id, payload_size_max) ==
    /\ rx' = subscribe(rx, kind, port_id, payload_size_max, TransferTimeout)
    /\ call' = NoCall
    /\ UNCHANGED <<now, wire, this_node, app>>

Unsubscribe(kind, port_id) ==
    /\ find_subscription(subscriptions_for_kind(rx, kind), port_id) # 0
    /\ rx' = unsubscribe(rx, kind, port_id)
    /\ call' = NoCall
    /\ UNCHANGED <<now, wire, this_node, app>>

\* A frame arrives, stamped with the current time.
Accept(bus_frame, memory) ==
    /\ rx.error_count + rx.transfer_count < MaxCounted
    /\ \E frame \in {Frame(now, bus_frame.id, bus_frame.data)} :
       \E result \in {accept(rx, frame, memory)} :
           /\ rx' = result.rx
           /\ call' = [kind |-> "accept", frame |-> frame, ret |-> result.ret]
    /\ UNCHANGED <<now, wire, this_node, app>>

\* Allocations fail for the frames of node A only.
FrameMemory(bus_frame) == IF bus_frame.id % 128 = NodeA THEN Memory ELSE {"ok"}

Next ==
    \/ \E size \in PayloadSizes : Subscribe("Message", TheSubject, size)
    \/ Unsubscribe("Message", TheSubject)
    \/ Tick
    \/ \E bus_frame \in BusFrames : \E memory \in FrameMemory(bus_frame) :
            Accept(bus_frame, memory)

Spec == Init /\ [][Next]_vars

(***************************************************************************)
(* What the properties below speak of                                      *)
(***************************************************************************)
\* The session the receiver holds for node n on the subject: a sequence of
\* one session, or the empty sequence.
SessionOf(r, n) ==
    LET i == the_subscription(r)
    IN  IF i # 0 /\ has_session(r.subscriptions_message[i], n)
        THEN <<session_mut(r.subscriptions_message[i], n)>>
        ELSE <<>>

\* This step is a call of Receiver::accept: call' holds its frame and what it
\* returned, rx and rx' the receiver before and after.
AcceptStep == call'.kind = "accept"

\* This step is accept taking the next frame of node n.
Delivered(n) == wire[n].state = "sending" /\ AcceptStep /\ wire'[n] # wire[n]

\* The buffer of node n's transfer once the frame of this step is appended.
Received(n) ==
    (IF SessionOf(rx, n) = <<>> THEN <<>> ELSE SessionOf(rx, n)[1].buildup.transfer)
        \o WithoutTail(call'.frame.data)

\* The transfer the receiver owes node n for the frames of w, received intact.
Intact(w) ==
    [timestamp |-> w.first_at, header |-> w.header,
     transfer_id |-> w.transfer_id, payload |-> w.payload]

\* The frames of w went to a subscription of the subject, each within the
\* subscription's timeout of the first.
FedInTime(w) == w.state \in {"sending", "done"} /\ w.next > 1 /\ w.subscribed /\ ~w.late

(***************************************************************************)
(* Round trip                                                              *)
(***************************************************************************)
\* Exactly the last accept returned a transfer, equal to the input.
RoundTrip(w) ==
    IF w.state = "done"
    THEN w.returned = <<Intact(w)>> /\ w.returned_at = Len(w.frames)
    ELSE w.returned = <<>>

\* What the transfer puts in the receiver's buffer: the payload, and the two
\* CRC bytes when it takes more than one frame.
BufferedLength(w) == Len(w.payload) + (IF Len(w.frames) > 1 THEN 2 ELSE 0)

C2_Completion ==
    [][\A n \in Nodes :
        Delivered(n) /\ call'.ret.kind = "OkSome" =>
            LET w == wire'[n]
                transfer == call'.ret.transfer
            IN  /\ transfer.timestamp = w.first_at
                /\ transfer.transfer_id = w.transfer_id
                /\ Len(w.frames) > 1 =>
                    /\ SessionOf(rx, n) # <<>>
                    /\ transfer.transfer_id = SessionOf(rx, n)[1].buildup.transfer_id
                    /\ transfer.payload = SubSeq(Received(n), 1, Len(Received(n)) - 2)
                /\ Len(w.frames) = 1 => transfer.payload = Received(n)
                /\ transfer.header = w.header
                /\ SessionOf(rx', n) = <<>>
                /\ rx'.transfer_count = rx.transfer_count + 1
                /\ rx'.error_count = rx.error_count]_vars

\* A four-frame transfer was completed by a frame that arrived after its first
\* frame, and the transfer returned is the one the node sent.
C2_Witness ==
    /\ wire[NodeA].state = "done"
    /\ call.kind = "accept"
    /\ call.ret.kind = "OkSome"
    /\ Len(wire[NodeA].frames) = 4
    /\ wire[NodeA].returned = <<call.ret.transfer>>
    /\ call.ret.transfer = Intact(wire[NodeA])
    /\ call.ret.transfer.timestamp < call.frame.timestamp
    /\ SessionOf(rx, NodeA) = <<>>
    /\ rx.transfer_count > 0

(***************************************************************************)
(* Session isolation                                                       *)
(***************************************************************************)
\* The session of node n is live at the current time: the expiry step of an
\* accept called now leaves it alone.
LiveSession(n) ==
    /\ SessionOf(rx, n) # <<>>
    /\ ~(duration_since(now, SessionOf(rx, n)[1].transfer_timestamp) > TransferTimeout)

\* C3: for two distinct nodes sending on one subscription, under every
\* interleaving of their frames, an undamaged transfer fed within the timeout
\* is delivered intact whatever the other node's transfer does; and an accept
\* of a frame of one node, whether it continues, completes or aborts that
\* node's transfer, neither creates a session for the other node nor changes
\* or destroys the other node's session while that session is within its
\* timeout.
C3_SessionIsolation ==
    /\ [](\A n \in Nodes :
            /\ FedInTime(wire[n])
            /\ wire[n].fault = "none"
            /\ BufferedLength(wire[n]) <= wire[n].payload_size_max
            => RoundTrip(wire[n]))
    /\ [][\A a \in Nodes : \A b \in Nodes \ {a} :
            Delivered(a) =>
                /\ SessionOf(rx, b) = <<>> => SessionOf(rx', b) = <<>>
                /\ LiveSession(b) => SessionOf(rx', b) = SessionOf(rx, b)]_vars

\* Node A began its four frames, node B began its three after that, and the
\* frame that completed A's transfer left B's two buffered frames in place.
C3_Witness ==
    /\ wire[NodeA].state = "done"
    /\ wire[NodeB].state = "sending"
    /\ Len(wire[NodeA].frames) = 4
    /\ wire[NodeA].first_at < wire[NodeB].first_at
    /\ call.kind = "accept"
    /\ call.ret = OkSome(Intact(wire[NodeA]))
    /\ SessionOf(rx, NodeA) = <<>>
    /\ SessionOf(rx, NodeB) # <<>>
    /\ SessionOf(rx, NodeB)[1].buildup.frames = 2
    /\ wire[NodeB].next = 3

(***************************************************************************)
(* Session expiry                                                          *)
(***************************************************************************)
\* The source and the tail byte of the frame of this step.
FrameSource == call'.frame.id % 128

FrameTail == TailByte_parse(call'.frame.data[Len(call'.frame.data)])

\* C4: when accept is called with a frame whose timestamp is greater than
\* transfer_timestamp + timeout of an existing session, that session does not
\* exist after the call (a session of the same node after the call is a new
\* one, begun by this frame); and when the late frame comes from the session's
\* node and has start = 0, accept returns Ok(None) and the node has no
\* session after the call.
C4_SessionExpiry ==
    [][AcceptStep =>
        \A n \in Nodes :
            (/\ SessionOf(rx, n) # <<>>
             /\ call'.frame.timestamp
                    > SessionOf(rx, n)[1].transfer_timestamp + TransferTimeout)
            => /\ SessionOf(rx', n) # <<>> =>
                    /\ SessionOf(rx', n)[1].transfer_timestamp = call'.frame.timestamp
                    /\ FrameSource = n
                    /\ FrameTail.start
               /\ FrameSource = n /\ ~FrameTail.start =>
                    /\ call'.ret = OkNone
                    /\ SessionOf(rx', n) = <<>>]_vars

\* Node A's first frame opened a session at time 0; its second frame, at time
\* 2, found the session expired and was dropped without a session and
\* without an error.
C4_Witness ==
    /\ wire[NodeA].state = "sending"
    /\ wire[NodeA].next = 3
    /\ wire[NodeA].fault = "none"
    /\ wire[NodeA].subscribed
    /\ wire[NodeA].payload_size_max = 22
    /\ wire[NodeA].late
    /\ wire[NodeA].first_at + TransferTimeout < now
    /\ call.kind = "accept"
    /\ call.frame.id % 128 = NodeA
    /\ call.ret = OkNone
    /\ SessionOf(rx, NodeA) = <<>>
    /\ wire[NodeA].errors = 0

(***************************************************************************)
(* Toggle discipline                                                       *)
(***************************************************************************)
\* C5: when the toggle bit of one middle frame of a multi-frame transfer, fed
\* in order and in time to a subscribed receiver that held no session for
\* the source, is flipped, the session is destroyed at that frame, no
\* transfer is ever delivered for the transfer, and error_count grows by
\* exactly 1 over the frames of the transfer: by 1 at the flipped frame and by
\* nothing at the frames after it.
C5_ToggleDiscipline ==
    \A n \in Nodes :
        LET w == wire[n]
        IN  (/\ FedInTime(w)
             /\ BufferedLength(w) <= w.payload_size_max
             /\ w.fault = "toggle"
             /\ 1 < w.fault_at /\ w.fault_at < Len(w.frames))
            => /\ w.returned = <<>>
               /\ w.errors = 1
               /\ SessionOf(rx, n) = <<>>

\* The third of four frames had its toggle flipped; all four were fed.
C5_Witness ==
    /\ wire[NodeA].state = "done"
    /\ FedInTime(wire[NodeA])
    /\ wire[NodeA].fault = "toggle"
    /\ wire[NodeA].fault_at = 3
    /\ Len(wire[NodeA].frames) = 4
    /\ wire[NodeA].payload_size_max = 22
    /\ wire[NodeA].errors = 1
    /\ wire[NodeA].returned = <<>>
    /\ rx.error_count = 1

(***************************************************************************)
(* Lost frames                                                             *)
(***************************************************************************)
\* C6, as stated: when the frames of a multi-frame transfer are fed in order
\* to a subscribed receiver with exactly one frame omitted, at any position,
\* no transfer is delivered and, once the receiver holds no session for the
\* transfer any more, error_count has grown by exactly 1 for the transfer.
C6_LostFrame ==
    \A n \in Nodes :
        LET w == wire[n]
        IN  (/\ w.state = "done"
             /\ w.subscribed
             /\ BufferedLength(w) <= w.payload_size_max
             /\ Len(w.frames) > 1
             /\ w.fault = "lost"
             /\ SessionOf(rx, n) = <<>>)
            => /\ w.returned = <<>>
               /\ w.errors = 1

\* What the code does: nothing is delivered, and only the loss of a middle
\* frame is counted, by the toggle check at the frame after the gap.
C6_LostFrameCounted ==
    \A n \in Nodes :
        LET w == wire[n]
        IN  (/\ w.state = "done"
             /\ FedInTime(w)
             /\ BufferedLength(w) <= w.payload_size_max
             /\ Len(w.frames) > 1
             /\ w.fault = "lost"
             /\ SessionOf(rx, n) = <<>>)
            => /\ w.returned = <<>>
               /\ w.errors = (IF 1 < w.fault_at /\ w.fault_at < Len(w.frames) THEN 1 ELSE 0)

(***************************************************************************)
(* CRC discipline                                                          *)
(***************************************************************************)
\* C7: a transfer completed from more than one frame is returned only if
\* the CRC of the whole reassembled buffer is 0, and then without the
\* buffer's last 2 bytes; when the last frame of a multi-frame transfer is
\* admitted and the CRC of the buffer is not 0, the session is destroyed,
\* error_count grows by 1 and Ok(None) is returned; a transfer completed from
\* one frame is returned as received, whatever its CRC.
C7_CrcDiscipline ==
    [][\A n \in Nodes :
        Delivered(n) =>
            LET w == wire'[n]
                ret == call'.ret
            IN  /\ ret.kind = "OkSome" /\ Len(w.frames) > 1 =>
                    /\ TransferCrc(Received(n)) = 0
                    /\ ret.transfer.payload = SubSeq(Received(n), 1, Len(Received(n)) - 2)
                /\ (/\ w.state = "done"
                    /\ Len(w.frames) > 1
                    /\ FedInTime(w)
                    /\ BufferedLength(w) <= w.payload_size_max
                    /\ w.fault = "corrupt") =>
                    /\ TransferCrc(Received(n)) # 0
                    /\ SessionOf(rx, n) # <<>>
                    /\ SessionOf(rx', n) = <<>>
                    /\ rx'.error_count = rx.error_count + 1
                    /\ rx'.transfer_count = rx.transfer_count
                    /\ ret = OkNone
                /\ (/\ Len(w.frames) = 1
                    /\ w.subscribed
                    /\ BufferedLength(w) <= w.payload_size_max
                    /\ w.fault \in {"none", "corrupt"}) =>
                    /\ ret.kind = "OkSome"
                    /\ ret.transfer.payload = WithoutTail(call'.frame.data)]_vars

\* A byte of the second of four frames was changed; the last frame found the
\* CRC wrong.
C7_Witness ==
    /\ wire[NodeA].state = "done"
    /\ Len(wire[NodeA].frames) = 4
    /\ FedInTime(wire[NodeA])
    /\ wire[NodeA].fault = "corrupt"
    /\ wire[NodeA].fault_at = 2
    /\ wire[NodeA].payload_size_max = 22
    /\ call.kind = "accept"
    /\ call.frame.data = wire[NodeA].frames[4]
    /\ call.ret = OkNone
    /\ wire[NodeA].errors = 1
    /\ wire[NodeA].returned = <<>>
    /\ SessionOf(rx, NodeA) = <<>>

(***************************************************************************)
(* Payload budget                                                          *)
(***************************************************************************)
\* The sessions of every subscription of the receiver hold at most
\* payload_size_max bytes.
WithinBudget(subscriptions) ==
    \A i \in DOMAIN subscriptions : \A n \in DOMAIN subscriptions[i].sessions :
        Len(subscriptions[i].sessions[n].buildup.transfer)
            <= subscriptions[i].payload_size_max

\* The frame of this step, from node n, starts a transfer or continues the
\* session of n, and its bytes would carry the buffer past payload_size_max.
OverBudget(n) ==
    LET i == the_subscription(rx)
    IN  /\ i # 0
        /\ IF SessionOf(rx, n) = <<>> THEN FrameTail.start ELSE LiveSession(n)
        /\ Len(Received(n)) > rx.subscriptions_message[i].payload_size_max

\* C8: in every reachable state every session's buildup holds at most
\* payload_size_max bytes; a frame whose non-tail bytes would carry the total
\* past payload_size_max, the first frame of a transfer included, leaves no
\* session for its source, adds exactly 1 to error_count and returns no
\* transfer, and no later frame of that transfer returns one.
C8_PayloadBudget ==
    /\ [](/\ WithinBudget(rx.subscriptions_message)
          /\ WithinBudget(rx.subscriptions_request)
          /\ WithinBudget(rx.subscriptions_response)
          /\ \A n \in Nodes :
                /\ wire[n].state \in {"sending", "done"}
                /\ wire[n].subscribed
                /\ BufferedLength(wire[n]) > wire[n].payload_size_max
                => wire[n].returned = <<>>)
    /\ [][\A n \in Nodes :
            Delivered(n) /\ OverBudget(n) =>
                /\ SessionOf(rx', n) = <<>>
                /\ rx'.error_count = rx.error_count + 1
                /\ rx'.transfer_count = rx.transfer_count
                /\ call'.ret.kind # "OkSome"]_vars

\* The second frame of a 13-byte transfer would have made 14 bytes for a
\* subscription of 13: the session is gone and one error is counted.
C8_Witness ==
    /\ wire[NodeA].state = "sending"
    /\ wire[NodeA].next = 3
    /\ Len(wire[NodeA].payload) = 13
    /\ wire[NodeA].payload_size_max = 13
    /\ wire[NodeA].fault = "none"
    /\ FedInTime(wire[NodeA])
    /\ call.kind = "accept"
    /\ call.frame.data = wire[NodeA].frames[2]
    /\ call.ret = OkNone
    /\ SessionOf(rx, NodeA) = <<>>
    /\ wire[NodeA].errors = 1
    /\ rx.error_count = 1

(***************************************************************************)
(* Frames that fail the sanity check                                       *)
(***************************************************************************)
\* Every session of the lists `after` is a session of the lists `before`.
NoNewSession(before, after) ==
    /\ Len(after) = Len(before)
    /\ \A i \in DOMAIN after : \A n \in DOMAIN after[i].sessions :
        /\ n \in DOMAIN before[i].sessions
        /\ after[i].sessions[n] = before[i].sessions[n]

\* No data at all, bit 23 of the CAN ID set, or a message CAN ID with bit 7
\* set.
Malformed(frame) ==
    \/ Len(frame.data) = 0
    \/ bit_set(frame.id, 23)
    \/ ~bit_set(frame.id, 25) /\ bit_set(frame.id, 7)

\* C9: for every frame that fails the sanity check, and so for every frame
\* with no data, with bit 23 of the CAN ID set or with a message CAN ID with
\* bit 7 set, accept returns Ok(None), never an error, adds exactly 1 to
\* error_count, leaves transfer_count alone and creates no session.
C9_MalformedFrames ==
    [][AcceptStep =>
        /\ Malformed(call'.frame) => ~frame_sanity_check(rx.id, call'.frame).ok
        /\ ~frame_sanity_check(rx.id, call'.frame).ok =>
            /\ call'.ret = OkNone
            /\ rx'.error_count = rx.error_count + 1
            /\ rx'.transfer_count = rx.transfer_count
            /\ NoNewSession(rx.subscriptions_message, rx'.subscriptions_message)
            /\ NoNewSession(rx.subscriptions_request, rx'.subscriptions_request)
            /\ NoNewSession(rx.subscriptions_response, rx'.subscriptions_response)]_vars

\* A single-frame message on the subscribed subject whose CAN ID has bit 23
\* set arrived while a session was open: it was counted as an error and
\* nothing came back.
C9_Witness ==
    /\ call.kind = "accept"
    /\ bit_set(call.frame.id, 23)
    /\ ~bit_set(call.frame.id, 25)
    /\ get_u16(call.frame.id, 8) % 8192 = TheSubject
    /\ the_subscription(rx) # 0
    /\ SessionOf(rx, NodeA) # <<>>
    /\ call.ret = OkNone
    /\ rx.error_count = 2
    /\ rx.transfer_count = 0

(***************************************************************************)
(* Service frames for another node                                         *)
(***************************************************************************)
\* The frame is a service frame, well formed, for a node other than `id`.
ForAnotherNode(id, frame) ==
    /\ Len(frame.data) > 0
    /\ parse_can_id(frame.id).ok
    /\ is_service(parse_can_id(frame.id).header)
    /\ parse_can_id(frame.id).header.kind.destination # id

\* C10, as stated: a well-formed service frame whose destination is not the
\* receiver's node id is dropped silently: accept returns Ok(None), no session
\* is created or changed, and error_count and transfer_count stay as they
\* were.
C10_ServiceFrameForAnotherNode ==
    [][AcceptStep /\ ForAnotherNode(rx.id, call'.frame) =>
        /\ call'.ret = OkNone
        /\ NoNewSession(rx.subscriptions_message, rx'.subscriptions_message)
        /\ NoNewSession(rx.subscriptions_request, rx'.subscriptions_request)
        /\ NoNewSession(rx.subscriptions_response, rx'.subscriptions_response)
        /\ rx'.error_count = rx.error_count
        /\ rx'.transfer_count = rx.transfer_count]_vars

\* What the code does: the frame is dropped and counted as an error.
C10_ServiceFrameCounted ==
    [][AcceptStep /\ ForAnotherNode(rx.id, call'.frame) =>
        /\ call'.ret = OkNone
        /\ NoNewSession(rx.subscriptions_message, rx'.subscriptions_message)
        /\ NoNewSession(rx.subscriptions_request, rx'.subscriptions_request)
        /\ NoNewSession(rx.subscriptions_response, rx'.subscriptions_response)
        /\ rx'.error_count = rx.error_count + 1
        /\ rx'.transfer_count = rx.transfer_count]_vars

(***************************************************************************)
(* Routing: subscriptions of the three kinds come and go while frames of   *)
(* the three kinds arrive.  TheService is a legal subject id as well as a  *)
(* service id, so a message subscription and the service subscriptions can *)
(* carry the same numeric port id.                                         *)
(***************************************************************************)
\* A try_push that needs fresh memory for every element.
try_push_reallocating(subscriptions, spare, new_subscription, memory_ok) ==
    IF ~memory_ok
    THEN [ok |-> FALSE, subscriptions |-> subscriptions]
    ELSE [ok |-> TRUE, subscriptions |-> Append(subscriptions, new_subscription)]

\* FallibleVec::try_push on the list of subscriptions.  spare is the number
\* of slots that retain has freed and the Vec has kept; with none, the push
\* needs memory, which memory_ok says it gets.  "If a subscription
\* previously existed and was removed, this Vec must have space for it."
try_push(subscriptions, spare, new_subscription, memory_ok) ==
    IF spare = 0 /\ ~memory_ok
    THEN [ok |-> FALSE, subscriptions |-> subscriptions]
    ELSE [ok |-> TRUE, subscriptions |-> Append(subscriptions, new_subscription)]

\* A subscribe that gives a subscription that exists the new settings and
\* leaves its sessions alone.
try_subscribe_in_place(r, kind, port_id, payload_size_max, timeout, memory_ok) ==
    LET subscriptions == subscriptions_for_kind(r, kind)
        i == find_subscription(subscriptions, port_id)
    IN  IF i # 0
        THEN [rx |-> with_subscriptions(r, kind,
                        [subscriptions EXCEPT ![i].timeout = timeout,
                                              ![i].payload_size_max = payload_size_max]),
              ret |-> [kind |-> "Ok"]]
        ELSE IF ~memory_ok
        THEN [rx |-> r, ret |-> ErrOutOfMemory]
        ELSE [rx |-> subscribe(r, kind, port_id, payload_size_max, timeout),
              ret |-> [kind |-> "Ok"]]

\* Receiver::subscribe where the push of the new subscription may fail.
try_subscribe(r, kind, port_id, payload_size_max, timeout, memory_ok) ==
    LET removed == unsubscribe(r, kind, port_id)
        spare == Len(subscriptions_for_kind(r, kind))
                    - Len(subscriptions_for_kind(removed, kind))
        pushed == try_push(subscriptions_for_kind(removed, kind), spare,
                           Subscription_new(timeout, payload_size_max, port_id), memory_ok)
    IN  IF ~pushed.ok
        THEN [rx |-> removed, ret |-> ErrOutOfMemory]
        ELSE [rx |-> with_subscriptions(removed, kind, pushed.subscriptions),
              ret |-> [kind |-> "Ok"]]

\* The (kind, port) pairs the application subscribes to.
Ports ==
    {<<"Message", TheSubject>>, <<"Message", TheService>>,
     <<"Request", TheService>>, <<"Response", TheService>>}

\* The (payload_size_max, timeout) a subscription is made with.
SubscriptionSettings(kind) ==
    IF kind = "Message"
    THEN {<<6, TransferTimeout>>, <<22, TransferTimeout + 1>>}
    ELSE {<<22, TransferTimeout>>}

port_header(kind, port_id, source, anonymous) ==
    [source |-> source, priority |-> Nominal,
     kind |-> IF kind = "Message"
              THEN [kind |-> "Message", anonymous |-> anonymous, subject |-> port_id]
              ELSE [kind |-> kind, service |-> port_id, destination |-> LocalId]]

\* The data of a frame with its tail byte replaced by that of a single-frame
\* transfer.
AsSingleFrame(data) ==
    WithoutTail(data) \o <<make_tail_byte(TRUE, TRUE, TRUE, data[Len(data)] % 32)>>

\* The first two frames of node A's three-frame message; an anonymous frame
\* with node A's id as pseudo-id that carries the bytes of the third; the
\* first frame of a multi-frame anonymous message; first frames of a message
\* on the other subject and of a request; a single-frame response.
PortFrames ==
    {[id |-> make_can_id(message_header(NodeA)), data |-> TransferFrames[1]],
     [id |-> make_can_id(message_header(NodeA)), data |-> TransferFrames[2]],
     [id |-> make_can_id(port_header("Message", TheSubject, NodeA, TRUE)),
      data |-> AsSingleFrame(TransferFrames[3])],
     [id |-> make_can_id(port_header("Message", TheSubject, StrayNode, TRUE)),
      data |-> StartFrame],
     [id |-> make_can_id(port_header("Message", TheService, NodeA, FALSE)),
      data |-> StartFrame],
     [id |-> make_can_id(port_header("Request", TheService, StrayNode, FALSE)),
      data |-> StartFrame],
     [id |-> make_can_id(port_header("Response", TheService, StrayNode, FALSE)),
      data |-> SingleFrame]}

\* The sources whose transfers the subscription of r for the kind and port
\* is reassembling.
in_progress(r, kind, port_id) ==
    LET subscriptions == subscriptions_for_kind(r, kind)
        i == find_subscription(subscriptions, port_id)
    IN  IF i = 0 THEN {} ELSE DOMAIN subscriptions[i].sessions

SubscribePort(kind, port_id, payload_size_max, timeout, memory_ok) ==
    /\ \E result \in {try_subscribe(rx, kind, port_id, payload_size_max, timeout,
                                    memory_ok)} :
           /\ rx' = result.rx
           /\ call' = [kind |-> "subscribe", transfer_kind |-> kind, port_id |-> port_id,
                       payload_size_max |-> payload_size_max, timeout |-> timeout,
                       memory_ok |-> memory_ok,
                       in_progress |-> in_progress(rx, kind, port_id),
                       replaced |->
                            find_subscription(subscriptions_for_kind(rx, kind), port_id) # 0,
                       ret |-> result.ret]
    /\ UNCHANGED <<now, wire, this_node, app>>

UnsubscribePort(kind, port_id) ==
    /\ rx' = unsubscribe(rx, kind, port_id)
    /\ call' = [kind |-> "unsubscribe", transfer_kind |-> kind, port_id |-> port_id]
    /\ UNCHANGED <<now, wire, this_node, app>>

NextPorts ==
    \/ \E port \in Ports : \E settings \in SubscriptionSettings(port[1]) :
       \E memory_ok \in BOOLEAN :
            SubscribePort(port[1], port[2], settings[1], settings[2], memory_ok)
    \/ \E port \in Ports : UnsubscribePort(port[1], port[2])
    \/ \E bus_frame \in PortFrames : Accept(bus_frame, "ok")

SpecPorts == Init /\ [][NextPorts]_vars

(***************************************************************************)
(* Frames nobody subscribed to                                             *)
(***************************************************************************)
\* The frame passes the sanity check and the list of its kind holds no
\* subscription for its port.
Unsubscribed(r, frame) ==
    LET checked == frame_sanity_check(r.id, frame)
    IN  /\ checked.ok
        /\ \A subscription \in
                {subscriptions_for_kind(r, header_kind(checked.header))[i] :
                    i \in DOMAIN subscriptions_for_kind(r, header_kind(checked.header))} :
            subscription.port_id # header_port_id(checked.header)

\* C11: a valid frame for which no subscription of its kind and port exists
\* is ignored silently: accept returns Ok(None), error_count and
\* transfer_count stay as they were, and no subscription of any kind gains a
\* session.
C11_NoSubscription ==
    [][AcceptStep /\ Unsubscribed(rx, call'.frame) =>
        /\ call'.ret = OkNone
        /\ rx'.error_count = rx.error_count
        /\ rx'.transfer_count = rx.transfer_count
        /\ NoNewSession(rx.subscriptions_message, rx'.subscriptions_message)
        /\ NoNewSession(rx.subscriptions_request, rx'.subscriptions_request)
        /\ NoNewSession(rx.subscriptions_response, rx'.subscriptions_response)]_vars

\* The first frame of a request for service 430 arrived while the only
\* subscription was a message subscription for subject 430, large enough to
\* take the frame: nothing came back and nothing was kept or counted.
C11_Witness ==
    /\ call.kind = "accept"
    /\ header_kind(parse_can_id(call.frame.id).header) = "Request"
    /\ header_port_id(parse_can_id(call.frame.id).header) = TheService
    /\ TailByte_parse(call.frame.data[Len(call.frame.data)]).start
    /\ Len(rx.subscriptions_message) = 1
    /\ rx.subscriptions_message[1].port_id = TheService
    /\ rx.subscriptions_message[1].payload_size_max = 22
    /\ rx.subscriptions_message[1].sessions = init_rx_sessions
    /\ rx.subscriptions_request = <<>>
    /\ call.ret = OkNone
    /\ rx.error_count = 0
    /\ rx.transfer_count = 0

(***************************************************************************)
(* Allocation failures                                                     *)
(***************************************************************************)
\* The frame of this step, from node n, goes to a subscription and needs a
\* new session, and the allocation of the session fails.
SessionAllocationFails(n) ==
    /\ Delivered(n)
    /\ the_subscription(rx) # 0
    /\ SessionOf(rx, n) = <<>>
    /\ FrameTail.start
    /\ call'.memory = "session"

\* The frame of this step, from node n, is in order, in time and within the
\* budget, and the buildup fails to extend its buffer for it.
BufferAllocationFails(n) ==
    /\ Delivered(n)
    /\ the_subscription(rx) # 0
    /\ LiveSession(n) \/ (SessionOf(rx, n) = <<>> /\ FrameTail.start)
    /\ Len(Received(n))
            <= rx.subscriptions_message[the_subscription(rx)].payload_size_max
    /\ call'.memory = "buffer"

\* C12, as stated: every allocation failure on the inbound path, of a new
\* session or of the buildup's buffer, makes accept return Err(OutOfMemory)
\* and adds exactly 1 to error_count.
C12_AllocationFailure ==
    [][\A n \in Nodes :
        SessionAllocationFails(n) \/ BufferAllocationFails(n) =>
            /\ call'.ret = ErrOutOfMemory
            /\ rx'.error_count = rx.error_count + 1]_vars

\* What the code does: both failures are counted once and leave no session;
\* the failure to allocate a session returns Err(OutOfMemory), the failure
\* to extend the buffer returns Ok(None).
C12_AllocationFailureCounted ==
    [][\A n \in Nodes :
        /\ SessionAllocationFails(n) \/ BufferAllocationFails(n) =>
            /\ rx'.error_count = rx.error_count + 1
            /\ rx'.transfer_count = rx.transfer_count
            /\ SessionOf(rx', n) = <<>>
        /\ SessionAllocationFails(n) => call'.ret = ErrOutOfMemory
        /\ BufferAllocationFails(n) => call'.ret = OkNone]_vars

(***************************************************************************)
(* Timeouts                                                                *)
(***************************************************************************)
\* The frame of this step comes from node n, carries the transfer id of n's
\* session and is stamped more than the subscription's timeout after the
\* session's first frame.
TooLate(n) ==
    /\ AcceptStep
    /\ FrameSource = n
    /\ SessionOf(rx, n) # <<>>
    /\ SessionOf(rx, n)[1].buildup.transfer_id = FrameTail.transfer_id
    /\ duration_since(call'.frame.timestamp, SessionOf(rx, n)[1].transfer_timestamp)
            > rx.subscriptions_message[the_subscription(rx)].timeout

\* C13, as stated: when a frame of an existing session arrives more than the
\* timeout after the session's first frame, accept destroys the session and
\* adds exactly 1 to error_count.
C13_TimeoutCounted ==
    [][\A n \in Nodes :
        TooLate(n) =>
            /\ SessionOf(rx', n) # SessionOf(rx, n)
            /\ rx'.error_count = rx.error_count + 1]_vars

\* What the code does: the expiry step at the head of accept has removed
\* the session before the frame is looked at, so a late frame that does not
\* start a transfer is dropped like any frame without a session and nothing
\* is counted.
C13_TimeoutSilent ==
    [][\A n \in Nodes :
        TooLate(n) /\ ~FrameTail.start =>
            /\ SessionOf(rx', n) = <<>>
            /\ call'.ret = OkNone
            /\ rx'.error_count = rx.error_count
            /\ rx'.transfer_count = rx.transfer_count]_vars

(***************************************************************************)
(* Session select                                                          *)
(***************************************************************************)
\* The transfer id and the start bit of the frame of this step, read off the
\* last byte of its data.
FrameTransferId == call'.frame.data[Len(call'.frame.data)] % 32

FrameStarts == call'.frame.data[Len(call'.frame.data)] >= 128

\* The frame of this step is a usable message from node n on the subscribed
\* subject.
Routed(n) ==
    /\ AcceptStep
    /\ the_subscription(rx) # 0
    /\ Len(call'.frame.data) > 0
    /\ call'.frame.id = make_can_id(message_header(n))

\* C14: (a) when the frame's source has a session, not expired at the
\* frame's timestamp, whose transfer id differs from the frame's, the frame
\* is dropped and the session with its bytes, error_count and transfer_count
\* are unchanged, whether or not the frame has start = 1; (b) when the source
\* has no such session and the frame has start = 0, the frame is dropped, no
\* session is created and no counter changes; and every frame that a session
\* takes in or that completes a transfer carries the transfer id of the
\* session and of the transfer.
C14_SessionSelect ==
    [][\A n \in Nodes :
        Routed(n) =>
            /\ (/\ LiveSession(n)
                /\ SessionOf(rx, n)[1].buildup.transfer_id # FrameTransferId) =>
                    /\ call'.ret = OkNone
                    /\ SessionOf(rx', n) = SessionOf(rx, n)
                    /\ rx'.error_count = rx.error_count
                    /\ rx'.transfer_count = rx.transfer_count
            /\ ~LiveSession(n) /\ ~FrameStarts =>
                    /\ call'.ret = OkNone
                    /\ SessionOf(rx', n) = <<>>
                    /\ rx'.error_count = rx.error_count
                    /\ rx'.transfer_count = rx.transfer_count
            /\ SessionOf(rx', n) # <<>> /\ SessionOf(rx', n) # SessionOf(rx, n) =>
                    SessionOf(rx', n)[1].buildup.transfer_id = FrameTransferId
            /\ call'.ret.kind = "OkSome" =>
                    call'.ret.transfer.transfer_id = FrameTransferId]_vars

\* The first frame of transfer 1 of node A arrived while the session of its
\* transfer 0 held two frames: the session is as it was and nothing is
\* counted.
C14_Witness ==
    /\ call.kind = "accept"
    /\ call.frame.id = make_can_id(message_header(NodeA))
    /\ call.frame.data = OtherTransferStart
    /\ call.ret = OkNone
    /\ SessionOf(rx, NodeA) # <<>>
    /\ SessionOf(rx, NodeA)[1].buildup.transfer_id = 0
    /\ SessionOf(rx, NodeA)[1].buildup.frames = 2
    /\ rx.error_count = 0
    /\ rx.transfer_count = 0

(***************************************************************************)
(* Anonymous messages                                                      *)
(***************************************************************************)
\* The frame is a message frame with the anonymous flag set.
AnonymousFrame(frame) ==
    /\ Len(frame.data) > 0
    /\ ~bit_set(frame.id, 25)
    /\ bit_set(frame.id, 24)

\* The tail byte says start = 1, end = 1, toggle = 1.
SingleFrameTail(frame) == frame.data[Len(frame.data)] >= 224

\* The session, if any, that the receiver holds for the frame's source in
\* the subscription the frame is routed to.
SessionForFrame(r, frame) ==
    LET i == find_subscription(r.subscriptions_message,
                               get_u16(frame.id, 8) % 8192)
    IN  IF i # 0 /\ has_session(r.subscriptions_message[i], frame.id % 128)
        THEN <<session_mut(r.subscriptions_message[i], frame.id % 128)>>
        ELSE <<>>

\* An anonymous frame whose tail byte is not that of a single-frame transfer
\* returns no transfer and creates no session.
AnonymousMultiFrameRejected ==
    AnonymousFrame(call'.frame) /\ ~SingleFrameTail(call'.frame) =>
        /\ call'.ret.kind # "OkSome"
        /\ NoNewSession(rx.subscriptions_message, rx'.subscriptions_message)
        /\ NoNewSession(rx.subscriptions_request, rx'.subscriptions_request)
        /\ NoNewSession(rx.subscriptions_response, rx'.subscriptions_response)

\* C15, as stated: an anonymous frame whose tail byte is not start = 1,
\* end = 1, toggle = 1 never creates a session and never contributes to a
\* transfer; and every anonymous message transfer that accept returns was
\* built from exactly one frame: its payload is the data of the frame of the
\* call.
C15_AnonymousSingleFrame ==
    [][AcceptStep =>
        /\ AnonymousMultiFrameRejected
        /\ (/\ call'.ret.kind = "OkSome"
            /\ is_anonymous(call'.ret.transfer.header)) =>
                call'.ret.transfer.payload = WithoutTail(call'.frame.data)]_vars

\* What the code does: frames of multi-frame anonymous transfers are
\* rejected, and an anonymous transfer is built from one frame whenever the
\* receiver holds no session under the frame's pseudo-id.
C15_AnonymousWithoutSession ==
    [][AcceptStep =>
        /\ AnonymousMultiFrameRejected
        /\ (/\ call'.ret.kind = "OkSome"
            /\ is_anonymous(call'.ret.transfer.header)
            /\ SessionForFrame(rx, call'.frame) = <<>>) =>
                call'.ret.transfer.payload = WithoutTail(call'.frame.data)]_vars

(***************************************************************************)
(* Subscriptions                                                           *)
(***************************************************************************)
\* The subscriptions of the list made for the port.
SubscriptionsFor(subscriptions, port_id) ==
    {i \in DOMAIN subscriptions : subscriptions[i].port_id = port_id}

\* C16: after any sequence of subscribe and unsubscribe calls of the three
\* kinds the receiver holds at most one subscription per kind and port;
\* subscribing to a subscribed kind and port leaves exactly one subscription
\* for it, with the new payload_size_max and timeout and no session;
\* unsubscribe leaves none, and a frame for a kind and port without
\* subscription is ignored.
C16_OneSubscriptionPerPort ==
    /\ [](\A port \in Ports :
            Cardinality(SubscriptionsFor(subscriptions_for_kind(rx, port[1]), port[2])) <= 1)
    /\ [][/\ call'.kind = "subscribe" /\ call'.ret.kind = "Ok" =>
                LET subscriptions == subscriptions_for_kind(rx', call'.transfer_kind)
                    mine == SubscriptionsFor(subscriptions, call'.port_id)
                IN  /\ Cardinality(mine) = 1
                    /\ \A i \in mine :
                        subscriptions[i] = Subscription_new(call'.timeout,
                                                call'.payload_size_max, call'.port_id)
          /\ call'.kind = "subscribe" /\ call'.replaced => call'.ret.kind = "Ok"
          /\ call'.kind = "unsubscribe" =>
                SubscriptionsFor(subscriptions_for_kind(rx', call'.transfer_kind),
                                 call'.port_id) = {}
          /\ AcceptStep /\ Unsubscribed(rx, call'.frame) =>
                call'.ret = OkNone /\ rx' = rx]_vars

\* The message subscription for subject 4919, made with 6 bytes and a
\* session or not, was made again with 22 bytes and another timeout while a
\* subscription for subject 430 stood: the list holds the subscription for
\* 430 and, after it, the new one for 4919.
C16_Witness ==
    /\ call.kind = "subscribe"
    /\ call.replaced
    /\ call.transfer_kind = "Message"
    /\ call.port_id = TheSubject
    /\ call.payload_size_max = 22
    /\ Len(rx.subscriptions_message) = 2
    /\ rx.subscriptions_message[1].port_id = TheService
    /\ rx.subscriptions_message[2] =
            Subscription_new(TransferTimeout + 1, 22, TheSubject)
    /\ Len(rx.subscriptions_request) = 1

(***************************************************************************)
(* CAN identifiers: parse_can_id, the identifier built for a header and    *)
(* the acceptance filters, applied to identifiers and headers drawn from   *)
(* every combination of field values below                                 *)
(***************************************************************************)
RECURSIVE And(_, _)
And(a, b) ==
    IF a = 0 \/ b = 0 THEN 0
    ELSE ((a % 2) * (b % 2)) + 2 * And(a \div 2, b \div 2)

\* Filter::new and the acceptance test of a filter
Filter_new(mask, id) == [mask |-> mask, id |-> id]

Filter_accepts(filter, bits) == And(bits, filter.mask) = And(filter.id, filter.mask)

\* A subject filter whose mask leaves bit 25 out.
subject_filter_any_kind(subject) ==
    Filter_new(44040064 - (2 ^ 25), 6291456 + subject * (2 ^ 8))

\* subject_filter: m_id 0x00600000 | subject << 8, mask 0x029FFF80
subject_filter(subject) ==
    Filter_new(44040064, 6291456 + subject * (2 ^ 8))

\* request_filter: m_id 0x03000000 | service << 14 | client << 7, mask 0x03FFFF80
request_filter(service, client) ==
    Filter_new(67108736, 50331648 + service * (2 ^ 14) + client * (2 ^ 7))

\* response_filter: m_id 0x02000000 | service << 14 | server << 7, mask 0x03FFFF80
response_filter(service, server) ==
    Filter_new(67108736, 33554432 + service * (2 ^ 14) + server * (2 ^ 7))

Priorities == {0, Nominal, 7}

SourceIds == {0, LocalId, StrayNode, NodeB, 127}

\* Bits 8..20 of the identifiers: subjects 0, 4919, 7509 and 8191, and the
\* bits service 430 leaves there with destinations 42 and 123.
MiddleBits == {0, TheSubject, 7509, 8191, 2965, 3005}

IdSamples ==
    {priority * (2 ^ 26) + bit25 * (2 ^ 25) + bit24 * (2 ^ 24) + bit23 * (2 ^ 23)
        + reserved * (2 ^ 21) + middle * (2 ^ 8) + bit7 * (2 ^ 7) + source :
        priority \in Priorities, bit25 \in 0..1, bit24 \in 0..1, bit23 \in 0..1,
        reserved \in 0..3, middle \in MiddleBits, bit7 \in 0..1, source \in SourceIds}

LegalHeaders ==
    {[source |-> source, priority |-> priority,
      kind |-> [kind |-> "Message", anonymous |-> anonymous, subject |-> subject]] :
        source \in SourceIds, priority \in Priorities, anonymous \in BOOLEAN,
        subject \in {0, TheSubject, 7509, 8191}}
    \cup
    {[source |-> source, priority |-> priority,
      kind |-> [kind |-> kind, service |-> service, destination |-> destination]] :
        source \in SourceIds, priority \in Priorities, kind \in {"Request", "Response"},
        service \in {0, TheService, 511}, destination \in {0, LocalId, NodeB, 127}}

FilterCalls ==
    {[filter |-> "subject_filter", port_id |-> subject, node |-> 0] :
        subject \in {0, TheSubject, 7509, 8191}}
    \cup
    {[filter |-> name, port_id |-> port[1], node |-> port[2]] :
        name \in {"request_filter", "response_filter"},
        port \in {<<0, 0>>, <<TheService, LocalId>>, <<TheService, NodeB>>, <<511, 127>>}}

make_filter(filter_call) ==
    IF filter_call.filter = "subject_filter" THEN subject_filter(filter_call.port_id)
    ELSE IF filter_call.filter = "request_filter"
    THEN request_filter(filter_call.port_id, filter_call.node)
    ELSE response_filter(filter_call.port_id, filter_call.node)

InitId ==
    /\ app = App_new
    /\ this_node = Node_new("Node")
    /\ rx = Receiver_new(LocalId)
    /\ now = 0
    /\ wire = [n \in Nodes |-> Idle]
    /\ \/ \E bits \in IdSamples : call = [kind |-> "id", bits |-> bits]
       \/ \E header \in LegalHeaders : call = [kind |-> "header", header |-> header]

\* parse_can_id(bits)
ParseId ==
    /\ call.kind = "id"
    /\ call' = [kind |-> "parse_can_id", bits |-> call.bits, ret |-> parse_can_id(call.bits)]
    /\ UNCHANGED <<rx, now, wire, this_node, app>>

\* The identifier built from the header parse_can_id returned
RebuildId ==
    /\ call.kind = "parse_can_id"
    /\ call.ret.ok
    /\ call' = [kind |-> "rebuilt", bits |-> call.bits, header |-> call.ret.header,
                id |-> make_can_id(call.ret.header)]
    /\ UNCHANGED <<rx, now, wire, this_node, app>>

\* The identifier built from a header
MakeId ==
    /\ call.kind = "header"
    /\ call' = [kind |-> "make_can_id", header |-> call.header,
                id |-> make_can_id(call.header)]
    /\ UNCHANGED <<rx, now, wire, this_node, app>>

\* parse_can_id of the identifier built from a header
ParseMade ==
    /\ call.kind = "make_can_id"
    /\ call' = [kind |-> "reparsed", header |-> call.header, id |-> call.id,
                ret |-> parse_can_id(call.id)]
    /\ UNCHANGED <<rx, now, wire, this_node, app>>

\* An identifier offered to a filter, and parsed
FilterId(filter_call) ==
    /\ call.kind = "id"
    /\ call' = [kind |-> "filter", bits |-> call.bits, filter_call |-> filter_call,
                accepted |-> Filter_accepts(make_filter(filter_call), call.bits),
                ret |-> parse_can_id(call.bits)]
    /\ UNCHANGED <<rx, now, wire, this_node, app>>

NextId ==
    \/ ParseId
    \/ RebuildId
    \/ MakeId
    \/ ParseMade
    \/ \E filter_call \in FilterCalls : FilterId(filter_call)

SpecId == InitId /\ [][NextId]_vars

\* Bits lowest..highest of an identifier, as a number.
BitsOf(bits, lowest, highest) == (bits \div (2 ^ lowest)) % (2 ^ (highest - lowest + 1))

\* C17: parse_can_id fails with Bit23Set iff bit 23 is set, with Bit7Set iff
\* bit 23 and bit 25 are clear and bit 7 is set, and otherwise returns
\* priority = bits 26..28 and source = bits 0..6 with, for bit 25 = 1, a
\* service header (service = bits 14..22, destination = bits 7..13, Request
\* iff bit 24) and, for bit 25 = 0, a message header (subject = bits 8..20,
\* anonymous = bit 24); the four identifiers of test_parse_can_id parse to
\* the headers the test expects.
C17_ParseCanId ==
    call.kind = "parse_can_id" =>
        /\ call.ret =
            IF BitsOf(call.bits, 23, 23) = 1
            THEN [ok |-> FALSE, error |-> "Bit23Set"]
            ELSE IF BitsOf(call.bits, 25, 25) = 0 /\ BitsOf(call.bits, 7, 7) = 1
            THEN [ok |-> FALSE, error |-> "Bit7Set"]
            ELSE IF BitsOf(call.bits, 25, 25) = 1
            THEN [ok |-> TRUE,
                  header |-> [source |-> BitsOf(call.bits, 0, 6),
                              priority |-> BitsOf(call.bits, 26, 28),
                              kind |-> [kind |-> IF BitsOf(call.bits, 24, 24) = 1
                                                 THEN "Request" ELSE "Response",
                                        service |-> BitsOf(call.bits, 14, 22),
                                        destination |-> BitsOf(call.bits, 7, 13)]]]
            ELSE [ok |-> TRUE,
                  header |-> [source |-> BitsOf(call.bits, 0, 6),
                              priority |-> BitsOf(call.bits, 26, 28),
                              kind |-> [kind |-> "Message",
                                        anonymous |-> BitsOf(call.bits, 24, 24) = 1,
                                        subject |-> BitsOf(call.bits, 8, 20)]]]
        \* 0x107d552a
        /\ call.bits = 276649258 =>
            call.ret = [ok |-> TRUE,
                        header |-> [source |-> 42, priority |-> Nominal,
                                    kind |-> [kind |-> "Message", anonymous |-> FALSE,
                                              subject |-> 7509]]]
        \* 0x11733775
        /\ call.bits = 292763509 =>
            call.ret = [ok |-> TRUE,
                        header |-> [source |-> 117, priority |-> Nominal,
                                    kind |-> [kind |-> "Message", anonymous |-> TRUE,
                                              subject |-> 4919]]]
        \* 0x136b957b
        /\ call.bits = 325817723 =>
            call.ret = [ok |-> TRUE,
                        header |-> [source |-> 123, priority |-> Nominal,
                                    kind |-> [kind |-> "Request", service |-> 430,
                                              destination |-> 42]]]
        \* 0x126bbdaa
        /\ call.bits = 309050794 =>
            call.ret = [ok |-> TRUE,
                        header |-> [source |-> 42, priority |-> Nominal,
                                    kind |-> [kind |-> "Response", service |-> 430,
                                              destination |-> 123]]]

\* parse_can_id refused 0x13eb957b, the request 0x136b957b with bit 23 set.
C17_Witness ==
    /\ call.kind = "parse_can_id"
    /\ call.bits = 325817723 + 2 ^ 23
    /\ call.ret = [ok |-> FALSE, error |-> "Bit23Set"]

\* C18 as stated: parsing the identifier built from a legal header returns
\* the header, and building an identifier from the header parsed from a
\* 29-bit value that passes the reserved-bit checks gives back the same 29
\* bits, reserved bits 21 and 22 included.
C18_RoundTrip ==
    /\ call.kind = "reparsed" => call.ret = [ok |-> TRUE, header |-> call.header]
    /\ call.kind = "rebuilt" => call.id = call.bits

\* C18: parsing the identifier built from a legal header returns the header;
\* building an identifier from the header parsed from a 29-bit value that
\* passes the reserved-bit checks gives back the same bits for a service
\* identifier and, for a message identifier, the same bits with bits 21 and
\* 22 set, whatever they were: the same 29 bits exactly when both were set.
C18_RoundTripReserved ==
    /\ call.kind = "reparsed" => call.ret = [ok |-> TRUE, header |-> call.header]
    /\ call.kind = "rebuilt" =>
        /\ BitsOf(call.bits, 23, 23) = 0
        /\ BitsOf(call.bits, 25, 25) = 0 => BitsOf(call.bits, 7, 7) = 0
        /\ call.id = IF BitsOf(call.bits, 25, 25) = 1 THEN call.bits
                     ELSE call.bits + (3 - BitsOf(call.bits, 21, 22)) * (2 ^ 21)
        /\ call.id = call.bits <=>
                BitsOf(call.bits, 25, 25) = 1 \/ BitsOf(call.bits, 21, 22) = 3

\* 0x101d552a, the message identifier 0x107d552a with bits 21 and 22 clear,
\* was parsed and the identifier built from its header is 0x107d552a.
C18_Witness ==
    /\ call.kind = "rebuilt"
    /\ call.bits = 276649258 - 3 * (2 ^ 21)
    /\ call.header.kind = [kind |-> "Message", anonymous |-> FALSE, subject |-> 7509]
    /\ call.id = 276649258

\* The identifier with its priority (bits 26..28) and source (bits 0..6)
\* replaced.
WithPriorityAndSource(bits, priority, source) ==
    bits - BitsOf(bits, 26, 28) * (2 ^ 26) - BitsOf(bits, 0, 6)
        + priority * (2 ^ 26) + source

\* C19: an identifier accepted by subject_filter(s) parses to a Message with
\* subject s, one accepted by request_filter(v, n) to a Request with service
\* v and destination n, one accepted by response_filter(v, n) to a Response
\* with service v and destination n; parse_can_id rejects no accepted
\* identifier, and an accepted identifier stays accepted with any priority
\* and any source.
C19_FilterSoundness ==
    call.kind = "filter" /\ call.accepted =>
        /\ call.ret.ok
        /\ call.filter_call.filter = "subject_filter" =>
            /\ call.ret.header.kind.kind = "Message"
            /\ call.ret.header.kind.subject = call.filter_call.port_id
        /\ call.filter_call.filter = "request_filter" =>
            call.ret.header.kind = [kind |-> "Request", service |-> call.filter_call.port_id,
                                    destination |-> call.filter_call.node]
        /\ call.filter_call.filter = "response_filter" =>
            call.ret.header.kind = [kind |-> "Response", service |-> call.filter_call.port_id,
                                    destination |-> call.filter_call.node]
        /\ \A priority \in 0..7, source \in 0..127 :
            Filter_accepts(make_filter(call.filter_call),
                           WithPriorityAndSource(call.bits, priority, source))

\* request_filter(430, 42) accepted 0x136b957b, the request for service 430
\* from node 123 to node 42, and response_filter(430, 42) would not.
C19_Witness ==
    /\ call.kind = "filter"
    /\ call.filter_call = [filter |-> "request_filter", port_id |-> TheService,
                           node |-> LocalId]
    /\ call.bits = 325817723
    /\ call.accepted
    /\ call.ret.header.source = NodeB
    /\ ~Filter_accepts(response_filter(TheService, LocalId), call.bits)

(***************************************************************************)
(* The node: Node (lib.rs) and CoreNode (node/core.rs) keep a map of       *)
(* publishers of capacity P and a map of requesters of capacity R beside   *)
(* the receiver.  A map is the sequence of its entries in insertion order. *)
(***************************************************************************)
P == 2

R == 1

contains_key(map, key) == \E i \in DOMAIN map : map[i].key = key

\* The map with the value of a key it holds replaced, the entry in its place.
with_value(map, key, value) ==
    [i \in DOMAIN map |-> IF map[i].key = key THEN [key |-> key, value |-> value]
                          ELSE map[i]]

\* TrivialIndexMap::insert, the insert of a bounded associative array: the
\* value of a key the map holds is replaced; a new key is added last, and
\* refused when the map is full.
TrivialIndexMap_insert(map, capacity, key, value) ==
    IF contains_key(map, key)
    THEN [ok |-> TRUE, map |-> with_value(map, key, value)]
    ELSE IF Len(map) >= capacity
    THEN [ok |-> FALSE, map |-> map]
    ELSE [ok |-> TRUE, map |-> Append(map, [key |-> key, value |-> value])]

TrivialIndexMap_remove(map, key) == SelectSeq(map, LAMBDA entry : entry.key # key)

Publisher_new(node_id, timeout, priority) ==
    [next_transfer_id |-> 0, timeout |-> timeout, priority |-> priority, source |-> node_id]

Requester_new(node_id, timeout, priority) ==
    [this_node |-> node_id, priority |-> priority, timeout |-> timeout, next_transfer_id |-> 0]

\* One subject more than the publishers map holds, one service more than the
\* requesters map holds.
NodeSubjects == {TheSubject + i : i \in 0..P}

NodeServices == {TheService + i : i \in 0..R}

\* A start_publishing_topic that drops the result of the insert.
start_publishing_topic_ignoring_error(n, subject, timeout, priority) ==
    [node |-> [n EXCEPT !.publishers =
                    TrivialIndexMap_insert(n.publishers, P, subject,
                                           Publisher_new(LocalId, timeout, priority)).map],
     ret |-> [kind |-> "Ok"]]

\* Node::start_publishing_topic
start_publishing_topic(n, subject, timeout, priority) ==
    LET inserted == TrivialIndexMap_insert(n.publishers, P, subject,
                                           Publisher_new(LocalId, timeout, priority))
    IN  IF inserted.ok
        THEN [node |-> [n EXCEPT !.publishers = inserted.map], ret |-> [kind |-> "Ok"]]
        ELSE [node |-> n, ret |-> [kind |-> "Err", error |-> "CapacityError"]]

\* CoreNode::start_publishing
start_publishing(n, subject, timeout, priority) ==
    IF contains_key(n.publishers, subject)
    THEN [node |-> n, ret |-> [kind |-> "Err", error |-> "Duplicate"]]
    ELSE LET inserted == TrivialIndexMap_insert(n.publishers, P, subject,
                                                Publisher_new(LocalId, timeout, priority))
         IN  IF inserted.ok
             THEN [node |-> [n EXCEPT !.publishers = inserted.map], ret |-> [kind |-> "Ok"]]
             ELSE [node |-> n, ret |-> [kind |-> "Err", error |-> "Memory(OutOfMemoryError)"]]

\* A start_sending_requests that returns a token although the subscription
\* failed and the requester was removed.
start_sending_requests_token_on_failure(n, r, service, receive_timeout, response_payload_size_max, priority, memory_ok) ==
    IF n.type = "CoreNode" /\ contains_key(n.requesters, service)
    THEN [node |-> n, rx |-> r, ret |-> [kind |-> "Err", error |-> "Duplicate"]]
    ELSE LET inserted == TrivialIndexMap_insert(n.requesters, R, service,
                                Requester_new(LocalId, receive_timeout, priority))
             subscribed == try_subscribe(r, "Response", service, response_payload_size_max,
                                         receive_timeout, memory_ok)
         IN  IF ~inserted.ok
             THEN [node |-> n, rx |-> r,
                   ret |-> [kind |-> "Err",
                            error |-> IF n.type = "Node" THEN "Capacity(CapacityError)"
                                      ELSE "Memory(OutOfMemoryError)"]]
             ELSE IF subscribed.ret.kind = "Ok"
             THEN [node |-> [n EXCEPT !.requesters = inserted.map], rx |-> subscribed.rx,
                   ret |-> [kind |-> "Ok"]]
             ELSE [node |-> [n EXCEPT !.requesters =
                                    TrivialIndexMap_remove(inserted.map, service)],
                   rx |-> subscribed.rx,
                   ret |-> [kind |-> "Ok"]]

\* A start_sending_requests that leaves the requester in the map when the
\* subscription fails.
start_sending_requests_without_cleanup(n, r, service, receive_timeout, response_payload_size_max, priority, memory_ok) ==
    IF n.type = "CoreNode" /\ contains_key(n.requesters, service)
    THEN [node |-> n, rx |-> r, ret |-> [kind |-> "Err", error |-> "Duplicate"]]
    ELSE LET inserted == TrivialIndexMap_insert(n.requesters, R, service,
                                Requester_new(LocalId, receive_timeout, priority))
             subscribed == try_subscribe(r, "Response", service, response_payload_size_max,
                                         receive_timeout, memory_ok)
         IN  IF ~inserted.ok
             THEN [node |-> n, rx |-> r,
                   ret |-> [kind |-> "Err",
                            error |-> IF n.type = "Node" THEN "Capacity(CapacityError)"
                                      ELSE "Memory(OutOfMemoryError)"]]
             ELSE [node |-> [n EXCEPT !.requesters = inserted.map], rx |-> subscribed.rx,
                   ret |-> IF subscribed.ret.kind = "Ok" THEN [kind |-> "Ok"]
                           ELSE [kind |-> "Err",
                                 error |-> IF n.type = "Node"
                                           THEN "OutOfMemory(OutOfMemoryError)"
                                           ELSE "Transport(OutOfMemoryError)"]]

\* Node::start_sending_requests and CoreNode::start_sending_requests: the
\* requester is inserted, the responses are subscribed to, and the requester
\* is removed again when the subscription fails.
start_sending_requests(n, r, service, receive_timeout, response_payload_size_max, priority, memory_ok) ==
    IF n.type = "CoreNode" /\ contains_key(n.requesters, service)
    THEN [node |-> n, rx |-> r, ret |-> [kind |-> "Err", error |-> "Duplicate"]]
    ELSE LET inserted == TrivialIndexMap_insert(n.requesters, R, service,
                                Requester_new(LocalId, receive_timeout, priority))
             subscribed == try_subscribe(r, "Response", service, response_payload_size_max,
                                         receive_timeout, memory_ok)
         IN  IF ~inserted.ok
             THEN [node |-> n, rx |-> r,
                   ret |-> [kind |-> "Err",
                            error |-> IF n.type = "Node" THEN "Capacity(CapacityError)"
                                      ELSE "Memory(OutOfMemoryError)"]]
             ELSE IF subscribed.ret.kind = "Ok"
             THEN [node |-> [n EXCEPT !.requesters = inserted.map], rx |-> subscribed.rx,
                   ret |-> [kind |-> "Ok"]]
             ELSE [node |-> [n EXCEPT !.requesters =
                                    TrivialIndexMap_remove(inserted.map, service)],
                   rx |-> subscribed.rx,
                   ret |-> [kind |-> "Err",
                            error |-> IF n.type = "Node" THEN "OutOfMemory(OutOfMemoryError)"
                                      ELSE "Transport(OutOfMemoryError)"]]

InitNode ==
    /\ app = App_new
    /\ rx = Receiver_new(LocalId)
    /\ now = 0
    /\ wire = [n \in Nodes |-> Idle]
    /\ call = NoCall
    /\ \E type \in {"Node", "CoreNode"} : this_node = Node_new(type)

StartPublishing(subject) ==
    /\ \E result \in {IF this_node.type = "Node"
                      THEN start_publishing_topic(this_node, subject, TransferTimeout, Nominal)
                      ELSE start_publishing(this_node, subject, TransferTimeout, Nominal)} :
           /\ this_node' = result.node
           /\ app' = IF result.ret.kind = "Ok"
                        THEN [app EXCEPT !.publish_tokens = @ \cup {subject},
                                         !.published = Counted(@, subject, 0)]
                        ELSE app
           /\ call' = [kind |-> "start_publishing", key |-> subject, ret |-> result.ret]
    /\ UNCHANGED <<rx, now, wire>>

\* CoreNode::stop_publishing, which takes the token
StopPublishing(subject) ==
    /\ this_node.type = "CoreNode"
    /\ subject \in app.publish_tokens
    /\ app' = [app EXCEPT !.publish_tokens = @ \ {subject},
                          !.published = [k \in DOMAIN @ \ {subject} |-> @[k]]]
    /\ this_node' = [this_node EXCEPT
                        !.publishers = TrivialIndexMap_remove(this_node.publishers, subject)]
    /\ call' = [kind |-> "stop_publishing", key |-> subject]
    /\ UNCHANGED <<rx, now, wire>>

StartSendingRequests(service, memory_ok) ==
    /\ \E result \in {start_sending_requests(this_node, rx, service, TransferTimeout, 22,
                                             Nominal, memory_ok)} :
           /\ this_node' = result.node
           /\ rx' = result.rx
           /\ app' = IF result.ret.kind = "Ok"
                        THEN [app EXCEPT !.service_tokens = @ \cup {service},
                                         !.requested = WithoutService(@, service)]
                        ELSE app
           /\ call' = [kind |-> "start_sending_requests", key |-> service,
                       ret |-> result.ret]
    /\ UNCHANGED <<now, wire>>

\* CoreNode::stop_sending_requests, which takes the token
StopSendingRequests(service) ==
    /\ this_node.type = "CoreNode"
    /\ service \in app.service_tokens
    /\ app' = [app EXCEPT !.service_tokens = @ \ {service},
                          !.requested = WithoutService(@, service)]
    /\ this_node' = [this_node EXCEPT
                        !.requesters = TrivialIndexMap_remove(this_node.requesters, service)]
    /\ call' = [kind |-> "stop_sending_requests", key |-> service]
    /\ UNCHANGED <<rx, now, wire>>

\* Frames handed to Node::accept_frame: the first frame of a response from
\* node B for the first service.
NodeFrames ==
    {[id |-> make_can_id(port_header("Response", TheService, NodeB, FALSE)),
      data |-> StartFrame]}

NextNode ==
    \/ \E subject \in NodeSubjects : StartPublishing(subject)
    \/ \E subject \in NodeSubjects : StopPublishing(subject)
    \/ \E service \in NodeServices : \E memory_ok \in BOOLEAN :
            StartSendingRequests(service, memory_ok)
    \/ \E service \in NodeServices : StopSendingRequests(service)
    \/ \E bus_frame \in NodeFrames : Accept(bus_frame, "ok")

SpecNode == InitNode /\ [][NextNode]_vars

\* The keys of a map.
Keys(map) == {map[i].key : i \in DOMAIN map}

MaxQueued == 2

\* TransferId::increment
TransferId_increment(transfer_id) == (transfer_id + 1) % 32

\* Transmitter::push, which fails when it cannot allocate a frame.
Transmitter_push(queue, transfer, memory_ok) ==
    IF memory_ok
    THEN [queue |-> Append(queue, transfer), ret |-> [kind |-> "Ok"]]
    ELSE [queue |-> queue, ret |-> ErrOutOfMemory]

get(map, key) == (CHOOSE entry \in {map[i] : i \in DOMAIN map} : entry.key = key).value

\* A send_payload that leaves next_transfer_id as it is.
Publisher_send_payload_without_increment(publisher, subject, payload, deadline) ==
    [publisher |-> publisher,
     transfer |-> [timestamp |-> deadline,
                   header |-> [source |-> publisher.source,
                               priority |-> publisher.priority,
                               kind |-> [kind |-> "Message", anonymous |-> FALSE,
                                         subject |-> subject]],
                   transfer_id |-> publisher.next_transfer_id,
                   payload |-> payload]]

\* Publisher::send_payload: the publisher afterwards and the transfer it pushes
Publisher_send_payload(publisher, subject, payload, deadline) ==
    [publisher |-> [publisher EXCEPT
                        !.next_transfer_id = TransferId_increment(publisher.next_transfer_id)],
     transfer |-> [timestamp |-> deadline,
                   header |-> [source |-> publisher.source,
                               priority |-> publisher.priority,
                               kind |-> [kind |-> "Message", anonymous |-> FALSE,
                                         subject |-> subject]],
                   transfer_id |-> publisher.next_transfer_id,
                   payload |-> payload]]

\* Requester::send_payload
Requester_send_payload(requester, payload, service, destination, deadline) ==
    [requester |-> [requester EXCEPT
                        !.next_transfer_id = TransferId_increment(requester.next_transfer_id)],
     transfer |-> [timestamp |-> deadline,
                   header |-> [source |-> requester.this_node,
                               priority |-> requester.priority,
                               kind |-> [kind |-> "Request", service |-> service,
                                         destination |-> destination]],
                   transfer_id |-> requester.next_transfer_id,
                   payload |-> payload]]

\* A publish that keeps the transfer id for the next call when the push
\* fails.
publish_to_topic_reusing_id(n, token, payload, time, memory_ok) ==
    IF ~contains_key(n.publishers, token)
    THEN [node |-> n, transfer |-> <<>>, ret |-> [kind |-> "Panic"]]
    ELSE LET publisher == get(n.publishers, token)
             sent == Publisher_send_payload(publisher, token, payload,
                                            publisher.timeout + time)
             pushed == Transmitter_push(n.transmitter, sent.transfer, memory_ok)
         IN  [node |-> IF memory_ok
                       THEN [n EXCEPT !.publishers = with_value(n.publishers, token,
                                                                sent.publisher),
                                      !.transmitter = pushed.queue]
                       ELSE n,
              transfer |-> sent.transfer,
              ret |-> pushed.ret]

\* Node::publish_to_topic and CoreNode::publish: the publisher of the token's
\* subject is looked up, panicking when there is none, and sends the payload
\* with deadline = timeout + now.
publish_to_topic(n, token, payload, time, memory_ok) ==
    IF ~contains_key(n.publishers, token)
    THEN [node |-> n, transfer |-> <<>>, ret |-> [kind |-> "Panic"]]
    ELSE LET publisher == get(n.publishers, token)
             sent == Publisher_send_payload(publisher, token, payload,
                                            publisher.timeout + time)
             pushed == Transmitter_push(n.transmitter, sent.transfer, memory_ok)
         IN  [node |-> [n EXCEPT !.publishers = with_value(n.publishers, token, sent.publisher),
                                 !.transmitter = pushed.queue],
              transfer |-> sent.transfer,
              ret |-> pushed.ret]

\* Node::send_request and CoreNode::send_request
send_request(n, token, payload, destination, time, memory_ok) ==
    IF ~contains_key(n.requesters, token)
    THEN [node |-> n, transfer |-> <<>>, ret |-> [kind |-> "Panic"]]
    ELSE LET requester == get(n.requesters, token)
             sent == Requester_send_payload(requester, payload, token, destination,
                                            requester.timeout + time)
             pushed == Transmitter_push(n.transmitter, sent.transfer, memory_ok)
         IN  [node |-> [n EXCEPT !.requesters = with_value(n.requesters, token, sent.requester),
                                 !.transmitter = pushed.queue],
              transfer |-> sent.transfer,
              ret |-> pushed.ret]

\* The transfer ids of a map's entries stay below the bound.
FewSent(map) == \A i \in DOMAIN map : map[i].value.next_transfer_id < MaxQueued

\* The application publishes with a token it holds, for at most limit times
\* through one Publisher; the push fails when the queue holds MaxQueued
\* transfers.
PublishToTopic(token, payload, limit) ==
    /\ token \in app.publish_tokens
    /\ app.published[token] < limit
    /\ \E result \in {publish_to_topic(this_node, token, payload, now,
                                       Len(this_node.transmitter) < MaxQueued)} :
           /\ this_node' = result.node
           /\ call' = [kind |-> "publish", key |-> token, transfer |-> result.transfer,
                       ret |-> result.ret]
    /\ app' = [app EXCEPT !.published = Counted(@, token, @[token] + 1)]
    /\ UNCHANGED <<rx, now, wire>>

\* The application sends a request with a token it holds.
SendRequest(token, payload, destination, memory_ok) ==
    /\ token \in app.service_tokens
    /\ Len(this_node.transmitter) < MaxQueued
    /\ FewSent(this_node.requesters)
    /\ \E result \in {send_request(this_node, token, payload, destination, now, memory_ok)} :
           /\ this_node' = result.node
           /\ call' = [kind |-> "send_request", key |-> token, destination |-> destination,
                       transfer |-> result.transfer, ret |-> result.ret]
    /\ app' = [app EXCEPT !.requested = Counted(@, <<token, destination>>,
                                                CountOf(@, <<token, destination>>) + 1)]
    /\ UNCHANGED <<rx, now, wire>>

NextSend ==
    \/ StartPublishing(TheSubject)
    \/ StopPublishing(TheSubject)
    \/ PublishToTopic(TheSubject, Pattern(2), MaxQueued)
    \/ \E memory_ok \in BOOLEAN : StartSendingRequests(TheService, memory_ok)
    \/ StopSendingRequests(TheService)
    \/ \E destination \in Nodes : SendRequest(TheService, Pattern(2), destination, TRUE)

SpecSend == InitNode /\ [][NextSend]_vars

\* C21: starting to publish a subject that has a publisher, or to send
\* requests for a service that has a requester, returns an error and leaves
\* the entry as it is, its next_transfer_id included.
C21_DuplicateRefused ==
    [][/\ /\ call'.kind = "start_publishing"
          /\ call'.key \in Keys(this_node.publishers)
          => /\ call'.ret.kind = "Err"
             /\ this_node'.publishers = this_node.publishers
       /\ /\ call'.kind = "start_sending_requests"
          /\ call'.key \in Keys(this_node.requesters)
          => /\ call'.ret.kind = "Err"
             /\ this_node'.requesters = this_node.requesters]_vars

\* What holds: a CoreNode refuses the duplicate with Duplicate and leaves
\* everything as it is; a Node returns a token and holds a new publisher
\* (requester) for the key, whose next_transfer_id is 0.
C21_DuplicateReplacedByNode ==
    [][/\ /\ call'.kind = "start_publishing"
          /\ call'.key \in Keys(this_node.publishers)
          => IF this_node.type = "CoreNode"
             THEN /\ call'.ret = [kind |-> "Err", error |-> "Duplicate"]
                  /\ this_node' = this_node
             ELSE /\ call'.ret.kind = "Ok"
                  /\ get(this_node'.publishers, call'.key).next_transfer_id = 0
       /\ /\ call'.kind = "start_sending_requests"
          /\ call'.key \in Keys(this_node.requesters)
          => IF this_node.type = "CoreNode"
             THEN /\ call'.ret = [kind |-> "Err", error |-> "Duplicate"]
                  /\ this_node' = this_node /\ rx' = rx
             ELSE /\ call'.ret.kind = "Ok"
                  /\ get(this_node'.requesters, call'.key).next_transfer_id = 0]_vars

\* The requests counted for a service, whatever the destination
RECURSIVE SumOf(_, _)
SumOf(counts, keys) ==
    IF keys = {} THEN 0
    ELSE LET key == CHOOSE k \in keys : TRUE
         IN  counts[key] + SumOf(counts, keys \ {key})

RequestedOf(service) == SumOf(app.requested, {k \in DOMAIN app.requested : k[1] = service})

\* C23: the k-th request (k = 0, 1, 2, ...) a requester sends to one
\* destination carries transfer id k mod 32, whatever it has sent to other
\* destinations in between.
C23_PerDestinationTransferId ==
    [][call'.kind = "send_request"
       => call'.transfer.transfer_id
              = CountOf(app.requested, <<call'.key, call'.destination>>) % 32]_vars

\* What holds: the requester counts its requests whatever their destination.
C23_PerServiceTransferId ==
    [][call'.kind = "send_request"
       => call'.transfer.transfer_id = RequestedOf(call'.key) % 32]_vars

(***************************************************************************)
(* Anonymous publishing                                                    *)
(***************************************************************************)
MaxPayload == 2         \* the longest payload a pseudo id is made of

\* NodeId::from_truncating keeps the low seven bits.
NodeId_from_truncating(bits) == bits % 128

\* NodeId::is_diagnostic_reserved: the two highest node ids.
is_diagnostic_reserved(id) == id >= 126

\* id_bits ^= byte for each byte of the payload
RECURSIVE xor_bytes(_, _)
xor_bytes(id_bits, payload) ==
    IF payload = <<>> THEN id_bits
    ELSE xor_bytes(Xor(id_bits, Head(payload)), Tail(payload))

\* The loop of make_pseudo_id: the id of id_bits unless it is reserved, in
\* which case id_bits.wrapping_sub(1) is tried.
RECURSIVE first_unreserved(_)
first_unreserved(id_bits) ==
    IF ~is_diagnostic_reserved(NodeId_from_truncating(id_bits))
    THEN NodeId_from_truncating(id_bits)
    ELSE first_unreserved((id_bits + 255) % 256)

\* A make_pseudo_id that returns the first id it forms.
make_pseudo_id_without_loop(payload) == NodeId_from_truncating(xor_bytes(37, payload))

\* make_pseudo_id(payload)
make_pseudo_id(payload) == first_unreserved(xor_bytes(37, payload))

\* Bytes that lead to every case of the loop: 37 ^ 90 = 127, 37 ^ 91 = 126,
\* 37 ^ 218 = 255, 37 ^ 219 = 254, 37 ^ 37 = 0.
PseudoBytes == {0, 1, 37, 90, 91, 128, 218, 219, 255}

PseudoPayloads == UNION {[1..n -> PseudoBytes] : n \in 0..MaxPayload}

InitPseudo ==
    /\ app = App_new
    /\ this_node = Node_new("Node")
    /\ rx = Receiver_new(LocalId)
    /\ now = 0
    /\ wire = [n \in Nodes |-> Idle]
    /\ \E payload \in PseudoPayloads : call = [kind |-> "payload", payload |-> payload]

\* make_pseudo_id(payload)
MakePseudoId ==
    /\ call.kind = "payload"
    /\ call' = [kind |-> "make_pseudo_id", payload |-> call.payload,
                id |-> make_pseudo_id(call.payload)]
    /\ UNCHANGED <<rx, now, wire, this_node, app>>

NextPseudo == MakePseudoId

SpecPseudo == InitPseudo /\ [][NextPseudo]_vars

\* Bit i of 37 ^ b1 ^ ... ^ bn is the parity of the bits i of 37 and of the bytes.
ParityBits(payload) ==
    LET bit(v, i) == (v \div (2 ^ i)) % 2
        RECURSIVE ones(_, _)
        ones(i, k) == IF k = 0 THEN bit(37, i) ELSE bit(payload[k], i) + ones(i, k - 1)
        RECURSIVE sum(_)
        sum(i) == IF i < 0 THEN 0 ELSE (ones(i, Len(payload)) % 2) * (2 ^ i) + sum(i - 1)
    IN  sum(7)

\* C27: make_pseudo_id returns for every payload (it terminates), and what it
\* returns is fixed by the payload: 37 XORed with every byte, truncated to
\* seven bits, and, while that id is diagnostic-reserved, the id of the eight
\* bits decremented by one with wrap; that is, the truncated bits themselves
\* when they are below 126 and 125 otherwise.  The id is never
\* diagnostic-reserved.
C27_PseudoId ==
    call.kind = "make_pseudo_id" =>
        /\ call.id \in 0..127
        /\ ~is_diagnostic_reserved(call.id)
        /\ call.id = IF ParityBits(call.payload) % 128 < 126
                     THEN ParityBits(call.payload) % 128
                     ELSE 125

\* The bits of the payload come to 255: 127 and 126 are reserved and 125 is returned.
C27_Witness ==
    /\ call.kind = "make_pseudo_id"
    /\ call.payload = <<218>>
    /\ call.id = 125

MaxPublished == 33      \* the most calls made through one publisher

\* AnonymousPublisher::new
AnonymousPublisher_new(priority, subject) ==
    [state |-> "some", priority |-> priority, subject |-> subject, next_transfer_id |-> 0]

\* AnonymousPublisher::send_payload: the publisher afterwards and the transfer
\* it hands to Transmitter::push
AnonymousPublisher_send_payload(publisher, payload, deadline) ==
    [publisher |-> [publisher EXCEPT
                        !.next_transfer_id = TransferId_increment(publisher.next_transfer_id)],
     transfer |-> [timestamp |-> deadline,
                   header |-> [source |-> make_pseudo_id(payload),
                               priority |-> publisher.priority,
                               kind |-> [kind |-> "Message", anonymous |-> FALSE,
                                         subject |-> publisher.subject]],
                   transfer_id |-> publisher.next_transfer_id,
                   payload |-> payload]]

\* The application constructs its AnonymousPublisher.
NewAnonymousPublisher(priority, subject) ==
    /\ app.anonymous_publisher = NoPublisher
    /\ app' = [app EXCEPT !.anonymous_publisher = AnonymousPublisher_new(priority, subject),
                          !.anonymous_published = 0]
    /\ call' = [kind |-> "AnonymousPublisher::new"]
    /\ UNCHANGED <<rx, now, wire, this_node>>

\* The application sends a payload through its AnonymousPublisher and its
\* Transmitter of MTU mtu, for at most limit times; the push fails when the
\* queue holds MaxQueued transfers.  frames are the frames the push queued.
AnonymousSend(payload, mtu, limit) ==
    /\ app.anonymous_publisher # NoPublisher
    /\ app.anonymous_published < limit
    /\ \E sent \in {AnonymousPublisher_send_payload(app.anonymous_publisher, payload,
                                                    TransferTimeout + now)} :
       \E pushed \in {Transmitter_push(app.transmitter, sent.transfer,
                                       Len(app.transmitter) < MaxQueued)} :
           /\ app' = [app EXCEPT !.anonymous_publisher = sent.publisher,
                                 !.transmitter = pushed.queue,
                                 !.anonymous_published = @ + 1]
           /\ call' = [kind |-> "anonymous_send", transfer |-> sent.transfer,
                       frames |-> IF pushed.ret.kind = "Ok"
                                  THEN Transmitter_frames(payload, mtu,
                                                          sent.transfer.transfer_id)
                                  ELSE <<>>,
                       mtu |-> mtu, ret |-> pushed.ret]
    /\ UNCHANGED <<rx, now, wire, this_node>>

NextPublisher ==
    \/ StartPublishing(TheSubject)
    \/ PublishToTopic(TheSubject, Pattern(2), MaxPublished)
    \/ NewAnonymousPublisher(Nominal, TheSubject)
    \/ AnonymousSend(Pattern(2), ClassicMtu, MaxPublished)

SpecPublisher == InitNode /\ [][NextPublisher]_vars

\* C22: the k-th call (k = 0, 1, 2, ...) made through one Publisher hands
\* the transmitter a transfer with transfer id k mod 32, whether or not the
\* push succeeds, and so does the k-th call made through one
\* AnonymousPublisher.
C22_TransferIdMonotonic ==
    [][/\ call'.kind = "publish"
          => call'.transfer.transfer_id = app.published[call'.key] % 32
       /\ call'.kind = "anonymous_send"
          => call'.transfer.transfer_id = app.anonymous_published % 32]_vars

\* The 33rd call through the AnonymousPublisher carried transfer id 0 again,
\* as the 33rd through the Publisher had done.
C22_Witness ==
    /\ call.kind = "anonymous_send"
    /\ app.anonymous_published = 33
    /\ call.transfer.transfer_id = 0
    /\ contains_key(this_node.publishers, TheSubject)
    /\ app.published[TheSubject] = 33
    /\ get(this_node.publishers, TheSubject).next_transfer_id = 1

\* Payloads of no bytes, of bytes that make a reserved id, of mtu - 1 bytes
\* (the longest that fit one frame), of mtu bytes and of 13 bytes.
AnonymousPayloads ==
    {<<>>, <<91>>, <<218, 1>>, Pattern(ClassicMtu - 1), Pattern(ClassicMtu), Pattern(13)}

\* The driver takes what the application's transmitter has queued.
AppFlush ==
    /\ app.transmitter # <<>>
    /\ app' = [app EXCEPT !.transmitter = <<>>]
    /\ call' = [kind |-> "flush"]
    /\ UNCHANGED <<rx, now, wire, this_node>>

NextAnonymous ==
    \/ NewAnonymousPublisher(Nominal, TheSubject)
    \/ \E payload \in AnonymousPayloads : AnonymousSend(payload, ClassicMtu, MaxQueued + 1)
    \/ AppFlush

SpecAnonymous == Init /\ [][NextAnonymous]_vars

\* C28: for a payload longer than mtu - 1 bytes AnonymousPublisher pushes
\* no frames to the transmitter.
C28_AnonymousSingleFrame ==
    [][/\ call'.kind = "anonymous_send"
       /\ Len(call'.transfer.payload) > call'.mtu - 1
       => /\ call'.frames = <<>>
          /\ app'.transmitter = app.transmitter]_vars

\* What holds: whatever the length of the payload, the transfer is pushed,
\* and a payload longer than mtu - 1 bytes goes out as the frames of a
\* multi-frame transfer when the queue has room.
C28_AnonymousFragmented ==
    [][/\ call'.kind = "anonymous_send"
       /\ Len(app.transmitter) < MaxQueued
       => /\ call'.ret.kind = "Ok"
          /\ app'.transmitter = Append(app.transmitter, call'.transfer)
          /\ Len(call'.transfer.payload) > call'.mtu - 1 => Len(call'.frames) > 1]_vars

\* C29: every transfer AnonymousPublisher pushes has a Message header with
\* anonymous = true, the subject and priority of the publisher, and
\* source = make_pseudo_id(payload).
C29_AnonymousHeader ==
    [][call'.kind = "anonymous_send"
       => /\ header_kind(call'.transfer.header) = "Message"
          /\ call'.transfer.header.kind.anonymous = TRUE
          /\ call'.transfer.header.kind.subject = app.anonymous_publisher.subject
          /\ call'.transfer.header.priority = app.anonymous_publisher.priority
          /\ call'.transfer.header.source = make_pseudo_id(call'.transfer.payload)]_vars

\* What holds: the header is that of a message from the pseudo id that is
\* not anonymous.
C29_HeaderNotAnonymous ==
    [][call'.kind = "anonymous_send"
       => /\ header_kind(call'.transfer.header) = "Message"
          /\ call'.transfer.header.kind.anonymous = FALSE
          /\ call'.transfer.header.kind.subject = app.anonymous_publisher.subject
          /\ call'.transfer.header.priority = app.anonymous_publisher.priority
          /\ call'.transfer.header.source = make_pseudo_id(call'.transfer.payload)
          /\ call'.transfer.header.source \in 0..125]_vars

(***************************************************************************)
(* Starting to send requests                                               *)
(***************************************************************************)
\* C25: whenever start_sending_requests returns an error (the map is full,
\* the service has a requester already, or the response subscription
\* fails), the requesters map is as it was before the call and the
\* application has received no ServiceToken; when it succeeds, the
\* requester and the response subscription of the service both exist.
C25_StartSendingRequestsAtomic ==
    [][call'.kind = "start_sending_requests"
       => IF call'.ret.kind = "Err"
          THEN /\ this_node'.requesters = this_node.requesters
               /\ app'.service_tokens = app.service_tokens
          ELSE /\ contains_key(this_node'.requesters, call'.key)
               /\ find_subscription(rx'.subscriptions_response, call'.key) # 0
               /\ call'.key \in app'.service_tokens]_vars

\* The response subscription could not be allocated: the requester that had
\* been inserted is gone again, and there is no subscription.
C25_Witness ==
    /\ call.kind = "start_sending_requests"
    /\ call.ret.kind = "Err"
    /\ call.ret.error \in {"OutOfMemory(OutOfMemoryError)", "Transport(OutOfMemoryError)"}
    /\ ~contains_key(this_node.requesters, call.key)
    /\ find_subscription(rx.subscriptions_response, call.key) = 0
    /\ Len(this_node.publishers) = P

(***************************************************************************)
(* Receiving: the node hands each completed transfer to the application's  *)
(* TransferHandler, and the application answers requests.                  *)
(***************************************************************************)
MaxHandled == 3         \* SpecDispatch stops the traffic once the two counters add up to this

\* A handle_incoming_transfer that makes every ResponseToken with the
\* nominal priority.
handle_incoming_transfer_nominal(transfer) ==
    IF header_kind(transfer.header) = "Request"
    THEN <<[handler |-> "handle_request",
            transfer |-> transfer,
            token |-> [service |-> transfer.header.kind.service,
                       client |-> transfer.header.source,
                       transfer |-> transfer.transfer_id,
                       priority |-> Nominal]]>>
    ELSE <<[handler |-> IF header_kind(transfer.header) = "Message"
                        THEN "handle_message" ELSE "handle_response",
            transfer |-> transfer]>>

\* Node::handle_incoming_transfer and CoreNode::handle_incoming_transfer: the
\* calls made of the TransferHandler, in order, each with the transfer (its
\* source, priority, port, transfer id, timestamp and payload) and, for a
\* request, the ResponseToken it is given.
handle_incoming_transfer(transfer) ==
    IF header_kind(transfer.header) = "Message"
    THEN <<[handler |-> "handle_message", transfer |-> transfer]>>
    ELSE IF header_kind(transfer.header) = "Request"
    THEN <<[handler |-> "handle_request",
            transfer |-> transfer,
            token |-> [service |-> transfer.header.kind.service,
                       client |-> transfer.header.source,
                       transfer |-> transfer.transfer_id,
                       priority |-> transfer.header.priority]]>>
    ELSE <<[handler |-> "handle_response", transfer |-> transfer]>>

\* An accept_frame that handles what was received and returns Ok whatever
\* the receiver returned.
accept_frame_ignoring_error(r, frame, memory) ==
    LET received == accept(r, frame, memory)
    IN  [rx |-> received.rx,
         received |-> received.ret,
         invoked |-> IF received.ret.kind = "OkSome"
                     THEN handle_incoming_transfer(received.ret.transfer) ELSE <<>>,
         ret |-> [kind |-> "Ok"]]

\* Node::accept_frame and CoreNode::receive: the receiver's error is
\* returned; a transfer is handled; Ok is returned otherwise.
accept_frame(r, frame, memory) ==
    LET received == accept(r, frame, memory)
    IN  IF received.ret = ErrOutOfMemory
        THEN [rx |-> received.rx, received |-> received.ret, invoked |-> <<>>,
              ret |-> [kind |-> "Err", error |-> "OutOfMemoryError"]]
        ELSE IF received.ret.kind = "OkSome"
        THEN [rx |-> received.rx, received |-> received.ret,
              invoked |-> handle_incoming_transfer(received.ret.transfer),
              ret |-> [kind |-> "Ok"]]
        ELSE [rx |-> received.rx, received |-> received.ret, invoked |-> <<>>,
              ret |-> [kind |-> "Ok"]]

\* Responder::send_response_payload and CoreNode::send_response_payload: the
\* transfer pushed
send_response_payload(n, token, deadline, payload) ==
    [timestamp |-> deadline,
     header |-> [source |-> LocalId,
                 priority |-> token.priority,
                 kind |-> [kind |-> "Response", service |-> token.service,
                           destination |-> token.client]],
     transfer_id |-> token.transfer,
     payload |-> payload]

\* Responder::send_response and CoreNode::send_response
send_response(n, token, timeout, payload, time) ==
    send_response_payload(n, token, timeout + time, payload)

\* The header of a single-frame transfer with a priority of its own
WithPriority(header, priority) == [header EXCEPT !.priority = priority]

\* Frames handed to the node: single-frame transfers of the three kinds from
\* nodes A and B with their own priorities and transfer ids, and a request
\* for a service nobody subscribed to.
DispatchFrames ==
    {[id |-> make_can_id(WithPriority(port_header("Message", TheSubject, NodeA, FALSE), 6)),
      data |-> <<10, 11, make_tail_byte(TRUE, TRUE, TRUE, 5)>>],
     [id |-> make_can_id(WithPriority(port_header("Request", TheService, NodeA, FALSE), 2)),
      data |-> <<20, make_tail_byte(TRUE, TRUE, TRUE, 7)>>],
     [id |-> make_can_id(WithPriority(port_header("Response", TheService, NodeB, FALSE), 1)),
      data |-> <<30, make_tail_byte(TRUE, TRUE, TRUE, 0)>>],
     [id |-> make_can_id(port_header("Request", TheService + 1, NodeA, FALSE)),
      data |-> SingleFrame]}

\* A frame arrives; the handler keeps what it is called with, and the token
\* of a request together with the request.
AcceptFrame(bus_frame, memory) ==
    /\ rx.error_count + rx.transfer_count < MaxHandled
    /\ \E frame \in {Frame(now, bus_frame.id, bus_frame.data)} :
       \E result \in {accept_frame(rx, frame, memory)} :
           /\ rx' = result.rx
           /\ app' = IF result.invoked = <<>> THEN app
                     ELSE [app EXCEPT
                             !.handled = result.invoked[Len(result.invoked)],
                             !.response_tokens =
                                 @ \cup {[token |-> result.invoked[i].token,
                                          request |-> result.invoked[i].transfer] :
                                         i \in {j \in DOMAIN result.invoked :
                                                  result.invoked[j].handler = "handle_request"}}]
           /\ call' = [kind |-> "accept_frame", frame |-> frame,
                       received |-> result.received, invoked |-> result.invoked,
                       ret |-> result.ret]
    /\ UNCHANGED <<now, wire, this_node>>

\* The application answers a request with the token it was given, which it
\* gives up; the push fails when the queue holds MaxQueued transfers.
SendResponse(held, timeout, payload) ==
    /\ held \in app.response_tokens
    /\ \E transfer \in {send_response(this_node, held.token, timeout, payload, now)} :
       \E pushed \in {Transmitter_push(this_node.transmitter, transfer,
                                       Len(this_node.transmitter) < MaxQueued)} :
           /\ this_node' = [this_node EXCEPT !.transmitter = pushed.queue]
           /\ call' = [kind |-> "send_response", held |-> held, timeout |-> timeout,
                       time |-> now, transfer |-> transfer, ret |-> pushed.ret]
    /\ app' = [app EXCEPT !.response_tokens = @ \ {held}]
    /\ UNCHANGED <<rx, now, wire>>

\* The timeout the application answers with
ResponseTimeout == 2

\* The session of a request may find no memory.
DispatchMemory(bus_frame) ==
    IF header_kind(parse_can_id(bus_frame.id).header) = "Request" THEN {"ok", "session"}
    ELSE {"ok"}

NextDispatch ==
    \/ SubscribePort("Message", TheSubject, 22, TransferTimeout, TRUE)
    \/ SubscribePort("Request", TheService, 22, TransferTimeout, TRUE)
    \/ StartSendingRequests(TheService, TRUE)
    \/ \E bus_frame \in DispatchFrames : \E memory \in DispatchMemory(bus_frame) :
            AcceptFrame(bus_frame, memory)
    \/ \E held \in app.response_tokens : SendResponse(held, ResponseTimeout, Pattern(2))
    \/ Tick

SpecDispatch == InitNode /\ [][NextDispatch]_vars

\* C24: the ResponseToken handed to handle_request with a request holds the
\* request's service, its source as the client, its transfer id and its
\* priority; send_response with that token pushes a response with the
\* transfer id, priority and service of the request, to the request's
\* source, from this node, with deadline = timeout + now.
C24_RequestResponsePairing ==
    [][/\ call'.kind = "accept_frame"
          => \A i \in DOMAIN call'.invoked :
                call'.invoked[i].handler = "handle_request"
                => LET request == call'.received.transfer
                       token == call'.invoked[i].token
                   IN  /\ token.service = request.header.kind.service
                       /\ token.client = request.header.source
                       /\ token.transfer = request.transfer_id
                       /\ token.priority = request.header.priority
       /\ call'.kind = "send_response"
          => LET request == call'.held.request
                 response == call'.transfer
             IN  /\ header_kind(response.header) = "Response"
                 /\ response.transfer_id = request.transfer_id
                 /\ response.header.priority = request.header.priority
                 /\ response.header.kind.service = request.header.kind.service
                 /\ response.header.kind.destination = request.header.source
                 /\ response.header.source = rx.id
                 /\ response.timestamp = now + call'.timeout
                 /\ call'.ret.kind = "Ok"
                    => this_node'.transmitter = Append(this_node.transmitter, response)]_vars

\* Node A's request with priority 2 and transfer id 7 was answered at
\* time 1 with timeout 2.
C24_Witness ==
    /\ call.kind = "send_response"
    /\ call.held.request.header.source = NodeA
    /\ call.transfer.header.priority = 2
    /\ call.transfer.transfer_id = 7
    /\ call.transfer.header.kind.destination = NodeA
    /\ call.transfer.timestamp = 3
    /\ call.time = 1
    /\ call.timeout = ResponseTimeout
    /\ call.ret.kind = "Ok"

\* C26: a call of accept_frame (receive) calls the handler at most once:
\* handle_message exactly when the receiver returned a message transfer,
\* handle_request when a request, handle_response when a response, with
\* that transfer's source, priority, transfer id and payload; when the
\* receiver returns no transfer or an error the handler is not called, and
\* the error is returned to the caller.
C26_Dispatch ==
    [][call'.kind = "accept_frame"
       => /\ Len(call'.invoked) <= 1
          /\ call'.received.kind = "OkSome"
             => /\ Len(call'.invoked) = 1
                /\ call'.invoked[1].handler =
                      (CASE header_kind(call'.received.transfer.header) = "Message"
                              -> "handle_message"
                         [] header_kind(call'.received.transfer.header) = "Request"
                              -> "handle_request"
                         [] header_kind(call'.received.transfer.header) = "Response"
                              -> "handle_response")
                /\ call'.invoked[1].transfer.header.source
                      = call'.received.transfer.header.source
                /\ call'.invoked[1].transfer.header.priority
                      = call'.received.transfer.header.priority
                /\ call'.invoked[1].transfer.transfer_id = call'.received.transfer.transfer_id
                /\ call'.invoked[1].transfer.payload = call'.received.transfer.payload
                /\ call'.ret.kind = "Ok"
                /\ app'.handled = call'.invoked[1]
          /\ call'.received.kind = "OkNone"
             => /\ call'.invoked = <<>>
                /\ call'.ret.kind = "Ok"
                /\ app'.handled = app.handled
          /\ call'.received = ErrOutOfMemory
             => /\ call'.invoked = <<>>
                /\ call'.ret = [kind |-> "Err", error |-> "OutOfMemoryError"]
                /\ app'.handled = app.handled]_vars

\* A response from node B was handed to handle_response after a request had
\* been handled and a frame that found no memory for its session had
\* returned the error.
C26_Witness ==
    /\ call.kind = "accept_frame"
    /\ call.received.kind = "OkSome"
    /\ app.handled.handler = "handle_response"
    /\ app.handled.transfer.header.source = NodeB
    /\ app.handled.transfer.header.priority = 1
    /\ app.handled.transfer.payload = <<30>>
    /\ app.response_tokens # {}
    /\ rx.error_count > 0

(***************************************************************************)
(* Tokens                                                                  *)
(***************************************************************************)
\* C30: for every token the application holds from a successful start (and
\* has not given back to stop_publishing or stop_sending_requests) the
\* publisher of its subject, or the requester of its service, exists; so
\* publish_to_topic and send_request never panic, also after a later start
\* for the same service has failed.
C30_TokensValid ==
    /\ [](/\ \A subject \in app.publish_tokens : contains_key(this_node.publishers, subject)
          /\ \A service \in app.service_tokens : contains_key(this_node.requesters, service))
    /\ [][call'.kind \in {"publish", "send_request"} => call'.ret.kind # "Panic"]_vars

\* A CoreNode that holds the token of a service and has sent a request
\* refused another start for the service, and the requester is as it was.
C30_Witness ==
    /\ call.kind = "start_sending_requests"
    /\ call.ret.kind = "Err"
    /\ call.key \in app.service_tokens
    /\ contains_key(this_node.requesters, call.key)
    /\ get(this_node.requesters, call.key).next_transfer_id = 1
    /\ Len(this_node.transmitter) = 1

(***************************************************************************)
(* The counters of the receiver                                            *)
(***************************************************************************)
\* Values of a counter: small ones, ones whose increment carries into the
\* next limb, and the two highest.
U64Samples ==
    {<<0, 0, 0, 0>>, <<5, 0, 0, 0>>, <<65535, 0, 0, 0>>, <<65535, 65535, 0, 0>>,
     <<65535, 65535, 65535, 32767>>, <<65534, 65535, 65535, 65535>>,
     <<65535, 65535, 65535, 65535>>}

\* A message of node A in one frame, the first frame of its longer one, a
\* frame with reserved bit 23 set, a request to another node, a request to
\* this node.
CountFrames ==
    {[id |-> make_can_id(message_header(NodeA)), data |-> SingleFrame],
     [id |-> make_can_id(message_header(NodeA)), data |-> TransferFrames[1]],
     [id |-> make_can_id(message_header(StrayNode)) + 2 ^ 23, data |-> SingleFrame],
     [id |-> make_can_id(service_header("Request", LocalId + 1)), data |-> SingleFrame],
     [id |-> make_can_id(service_header("Request", LocalId)), data |-> SingleFrame]}

\* A counter that holds a value is incremented.
IncrementCounter(limbs) ==
    /\ call' = [kind |-> "increment", value |-> limbs, ret |-> u64_wrapping_add(limbs, 1)]
    /\ UNCHANGED <<rx, now, wire, this_node, app>>

NextCount ==
    \/ \E size \in {6, 22} : \E memory_ok \in BOOLEAN :
            SubscribePort("Message", TheSubject, size, TransferTimeout, memory_ok)
    \/ UnsubscribePort("Message", TheSubject)
    \/ \E bus_frame \in CountFrames : \E memory \in Memory : Accept(bus_frame, memory)
    \/ \E limbs \in U64Samples : IncrementCounter(limbs)

SpecCount == Init /\ [][NextCount]_vars

\* The limbs of the value after limbs in 0 .. 2^64 - 1, 0 following 2^64 - 1:
\* the limbs up to the first that is not 65535 change, those to 0 and that
\* one by 1.
Successor(limbs) ==
    LET low == {i \in DOMAIN limbs : \A j \in 1..i : limbs[j] = 65535}
    IN  [i \in DOMAIN limbs |->
            IF i \in low THEN 0
            ELSE IF i - 1 \in low \/ i = 1 THEN limbs[i] + 1
            ELSE limbs[i]]

\* C31: an accept adds 1 to transfer_count, or 1 to error_count, or leaves
\* both; it adds to transfer_count exactly when it returns a transfer;
\* subscribe and unsubscribe leave both counters as they are; an increment
\* is +1 modulo 2^64.
C31_Counters ==
    [][/\ call'.kind = "accept"
          => /\ \/ rx'.transfer_count = rx.transfer_count /\ rx'.error_count = rx.error_count
                \/ rx'.transfer_count = rx.transfer_count + 1
                      /\ rx'.error_count = rx.error_count
                \/ rx'.transfer_count = rx.transfer_count
                      /\ rx'.error_count = rx.error_count + 1
             /\ rx'.transfer_count = rx.transfer_count + 1 <=> call'.ret.kind = "OkSome"
       /\ call'.kind \in {"subscribe", "unsubscribe"}
          => rx'.transfer_count = rx.transfer_count /\ rx'.error_count = rx.error_count
       /\ call'.kind = "increment"
          => call'.ret = Successor(call'.value)]_vars

\* A counter at 2^64 - 1 was incremented to 0 in a receiver that has counted
\* a transfer and an error.
C31_Witness ==
    /\ call.kind = "increment"
    /\ call.value = <<65535, 65535, 65535, 65535>>
    /\ call.ret = <<0, 0, 0, 0>>
    /\ rx.transfer_count = 1
    /\ rx.error_count = 1

(***************************************************************************)
(* Errors of the buildup                                                   *)
(***************************************************************************)
\* What Buildup::add answers for the frame of this step, from node n: the
\* name of its error, "None" when it takes the frame, and "NotCalled" when
\* accept does not get as far as the buildup.  The session is the one left
\* by the expiry step, or the new one of a start frame.
BuildupAnswer(n) ==
    LET cleaned == clean_expired_sessions(rx, call'.frame.timestamp)
        i == the_subscription(cleaned)
        found == SessionOf(cleaned, n)
        session == IF found # <<>> THEN found[1]
                   ELSE Session_new(call'.frame.timestamp, FrameTail.transfer_id)
    IN  IF ~Delivered(n) \/ i = 0 THEN "NotCalled"
        ELSE IF found # <<>> /\ found[1].buildup.transfer_id # FrameTail.transfer_id
        THEN "NotCalled"
        ELSE IF found = <<>> /\ (~FrameTail.start \/ call'.memory = "session")
        THEN "NotCalled"
        ELSE IF Len(session.buildup.transfer) + Len(call'.frame.data) - 1
                    > cleaned.subscriptions_message[i].payload_size_max
        THEN "NotCalled"
        ELSE IF duration_since(call'.frame.timestamp, session.transfer_timestamp)
                    > cleaned.subscriptions_message[i].timeout
        THEN "NotCalled"
        ELSE Buildup_add(session.buildup, call'.frame.data, call'.memory # "buffer").error

SessionInProgress(n) ==
    LET w == wire[n]
        session == SessionOf(rx, n)[1]
    IN  /\ w.state \in {"sending", "done"}
        /\ w.next > 1
        /\ w.subscribed
        /\ w.returned = <<>>
        /\ w.errors = 0
        /\ session.buildup.transfer_id = w.transfer_id
        /\ session.buildup.frames >= 1
        /\ session.transfer_timestamp = w.first_at
        /\ call.kind = "accept" =>
                duration_since(call.frame.timestamp, session.transfer_timestamp)
                    <= TransferTimeout

\* C33: a session of a node exists between two accepts only if a start frame
\* of the node's transfer was admitted and the transfer has since neither
\* completed, nor failed, nor expired; after an accept that returns a
\* transfer or counts an error for a frame that reached the subscription the
\* frame's source has no session; and the frame of a single-frame transfer
\* leaves no session.
C33_SessionLifecycle ==
    /\ [](\A n \in Nodes : SessionOf(rx, n) # <<>> => SessionInProgress(n))
    /\ [][\A n \in Nodes :
            /\ (/\ Delivered(n)
                /\ the_subscription(rx) # 0
                /\ call'.ret.kind = "OkSome" \/ rx'.error_count # rx.error_count)
               => SessionOf(rx', n) = <<>>
            /\ Delivered(n) /\ Len(wire[n].frames) = 1
               => SessionOf(rx', n) = <<>>]_vars

\* Node A's three-frame transfer came back from the accept of its last frame
\* and left no session, while the receiver still holds the session of node
\* B's transfer, begun and not finished.
C33_Witness ==
    /\ call.kind = "accept"
    /\ call.ret.kind = "OkSome"
    /\ wire[NodeA].state = "done"
    /\ Len(wire[NodeA].frames) = 3
    /\ SessionOf(rx, NodeA) = <<>>
    /\ SessionOf(rx, NodeB) # <<>>
    /\ wire[NodeB].state = "sending"

(***************************************************************************)
(* Subscribing again                                                       *)
(***************************************************************************)
\* The (kind, port) pairs receiver r is subscribed to.
SubscribedPorts(r) ==
    UNION {{<<kind, subscriptions_for_kind(r, kind)[i].port_id>> :
                i \in DOMAIN subscriptions_for_kind(r, kind)} :
           kind \in {"Message", "Request", "Response"}}

\* C34: a subscribe for a (kind, port) that is subscribed does not fail, and
\* a subscribe that returns an error leaves the set of subscribed
\* (kind, port) pairs as it was.
C34_ResubscribeKeeps ==
    [][call'.kind = "subscribe" =>
        /\ <<call'.transfer_kind, call'.port_id>> \in SubscribedPorts(rx)
                => call'.ret # ErrOutOfMemory
        /\ call'.ret = ErrOutOfMemory => SubscribedPorts(rx') = SubscribedPorts(rx)]_vars

\* With no memory to be had the subject was subscribed again, with other
\* settings, next to a request subscription.
C34_Witness ==
    /\ call.kind = "subscribe"
    /\ call.transfer_kind = "Message" /\ call.port_id = TheSubject
    /\ call.replaced
    /\ ~call.memory_ok
    /\ call.ret # ErrOutOfMemory
    /\ call.payload_size_max = 22
    /\ SubscribedPorts(rx) = {<<"Message", TheSubject>>, <<"Request", TheService>>}
    /\ rx.subscriptions_message[1].payload_size_max = 22

(***************************************************************************)
(* Expiry: subscriptions of the three kinds with two timeouts, sessions    *)
(* begun at different times, and frames that are accepted, fail the sanity *)
(* check, are addressed to another node or find no subscription.           *)
(***************************************************************************)
TransferKinds == {"Message", "Request", "Response"}

\* The subscriptions made: (kind, port, timeout).
ExpirySubscriptions ==
    {<<"Message", TheSubject, TransferTimeout>>,
     <<"Request", TheService, TransferTimeout + 1>>,
     <<"Response", TheService, TransferTimeout>>}

\* The first two frames of node A's message, the first frame of a request
\* and of a response to this node; a frame with reserved bit 23 set, a
\* request to another node and a message on a subject nobody subscribed to.
ExpiryFrames ==
    {[id |-> make_can_id(message_header(NodeA)), data |-> TransferFrames[1]],
     [id |-> make_can_id(message_header(NodeA)), data |-> TransferFrames[2]],
     [id |-> make_can_id(service_header("Request", LocalId)), data |-> StartFrame],
     [id |-> make_can_id(service_header("Response", LocalId)), data |-> StartFrame],
     [id |-> make_can_id(message_header(StrayNode)) + 2 ^ 23, data |-> SingleFrame],
     [id |-> make_can_id(service_header("Request", LocalId + 1)), data |-> SingleFrame],
     [id |-> make_can_id(port_header("Message", TheService, NodeA, FALSE)),
      data |-> StartFrame]}

\* The sessions receiver r holds: kind, port, source, the session and the
\* timeout of its subscription.
Sessions(r) ==
    UNION {UNION {{<<kind, subscriptions_for_kind(r, kind)[i].port_id, n,
                     subscriptions_for_kind(r, kind)[i].sessions[n],
                     subscriptions_for_kind(r, kind)[i].timeout>> :
                        n \in DOMAIN subscriptions_for_kind(r, kind)[i].sessions} :
                  i \in DOMAIN subscriptions_for_kind(r, kind)} :
           kind \in TransferKinds}

\* The age of a session of Sessions(r) at a time.
Age(s, time) == duration_since(time, s[4].transfer_timestamp)

\* The sessions of r older than their subscription's timeout at a time.
Expired(r, time) == {s \in Sessions(r) : Age(s, time) > s[5]}

\* A frame arrives, stamped with the current time; the call record holds the
\* (kind, port, source) of the sessions that were expired at that time.
AcceptAt(bus_frame) ==
    /\ rx.error_count + rx.transfer_count < MaxCounted
    /\ \E frame \in {Frame(now, bus_frame.id, bus_frame.data)} :
       \E result \in {accept(rx, frame, "ok")} :
           /\ rx' = result.rx
           /\ call' = [kind |-> "accept", frame |-> frame, ret |-> result.ret,
                       expired |-> {<<s[1], s[2], s[3]>> : s \in Expired(rx, now)}]
    /\ UNCHANGED <<now, wire, this_node, app>>

NextExpiry ==
    \/ \E subscription \in ExpirySubscriptions :
            SubscribePort(subscription[1], subscription[2], 22, subscription[3], TRUE)
    \/ Tick
    \/ \E bus_frame \in ExpiryFrames : AcceptAt(bus_frame)

SpecExpiry == Init /\ [][NextExpiry]_vars

\* The (kind, port, source) whose session the frame of this step is for: none
\* when the frame fails the sanity check or finds no subscription.
FrameSlot ==
    LET checked == frame_sanity_check(rx.id, call'.frame)
    IN  IF ~checked.ok THEN {}
        ELSE IF find_subscription(subscriptions_for_kind(rx, header_kind(checked.header)),
                                  header_port_id(checked.header)) = 0
        THEN {}
        ELSE {<<header_kind(checked.header), header_port_id(checked.header),
                checked.header.source>>}

\* The frame of this step gets to accept's check "if this frame is too late"
\* and the check finds it late: its session, the one the expiry step left or
\* the new one of a start frame, began more than the timeout before it.
TooLateBranchTaken ==
    LET cleaned == clean_expired_sessions(rx, call'.frame.timestamp)
        tail == FrameTail
    IN  \E slot \in FrameSlot :
            LET found == {s \in Sessions(cleaned) : <<s[1], s[2], s[3]>> = slot}
                subscriptions == subscriptions_for_kind(cleaned, slot[1])
                subscription == subscriptions[find_subscription(subscriptions, slot[2])]
            IN  \/ \E s \in found :
                        /\ s[4].buildup.transfer_id = tail.transfer_id
                        /\ frame_too_late(s[4], call'.frame, subscription.timeout)
                \/ /\ found = {}
                   /\ tail.start
                   /\ frame_too_late(Session_new(call'.frame.timestamp, tail.transfer_id),
                                     call'.frame, subscription.timeout)

C36_ExpiryOnEveryAccept ==
    [][AcceptStep =>
        \A s \in Sessions(rx) :
            /\ Age(s, call'.frame.timestamp) > s[5] => s \notin Sessions(rx')
            /\ Age(s, call'.frame.timestamp) <= s[5] /\ <<s[1], s[2], s[3]>> \notin FrameSlot
                    => s \in Sessions(rx')]_vars

\* A frame that fails the sanity check was counted as an error, and its
\* accept removed the message and response sessions that had timed out and
\* left the request session whose age equals its timeout.
C36_Witness ==
    /\ call.kind = "accept"
    /\ ~frame_sanity_check(rx.id, call.frame).ok
    /\ rx.error_count = 1
    /\ call.expired = {<<"Message", TheSubject, NodeA>>, <<"Response", TheService, StrayNode>>}
    /\ \E s \in Sessions(rx) : s[1] = "Request" /\ Age(s, now) = s[5]
    /\ \A s \in Sessions(rx) : s[1] = "Request"

(***************************************************************************)
(* Send attempts: a Publisher, a Requester and an AnonymousPublisher whose *)
(* pushes succeed or fail for want of memory, in any order.                *)
(***************************************************************************)
MaxAttempts == 3        \* the calls made through one sender

\* The application publishes with a token it holds and the push goes as
\* memory_ok says; the queue takes MaxQueued transfers.
PublishAttempt(token, payload, memory_ok) ==
    /\ token \in app.publish_tokens
    /\ app.published[token] < MaxAttempts
    /\ memory_ok => Len(this_node.transmitter) < MaxQueued
    /\ \E result \in {publish_to_topic(this_node, token, payload, now, memory_ok)} :
           /\ this_node' = result.node
           /\ call' = [kind |-> "publish", key |-> token, transfer |-> result.transfer,
                       ret |-> result.ret]
    /\ app' = [app EXCEPT !.published = Counted(@, token, @[token] + 1)]
    /\ UNCHANGED <<rx, now, wire>>

\* The application sends a payload through its AnonymousPublisher and the
\* push goes as memory_ok says.
AnonymousAttempt(payload, memory_ok) ==
    /\ app.anonymous_publisher # NoPublisher
    /\ app.anonymous_published < MaxAttempts
    /\ memory_ok => Len(app.transmitter) < MaxQueued
    /\ \E sent \in {AnonymousPublisher_send_payload(app.anonymous_publisher, payload,
                                                    TransferTimeout + now)} :
       \E pushed \in {Transmitter_push(app.transmitter, sent.transfer, memory_ok)} :
           /\ app' = [app EXCEPT !.anonymous_publisher = sent.publisher,
                                 !.transmitter = pushed.queue,
                                 !.anonymous_published = @ + 1]
           /\ call' = [kind |-> "anonymous_send", key |-> app.anonymous_publisher.subject,
                       transfer |-> sent.transfer, ret |-> pushed.ret]
    /\ UNCHANGED <<rx, now, wire, this_node>>

NextAttempt ==
    \/ StartPublishing(TheSubject)
    \/ StartSendingRequests(TheService, TRUE)
    \/ NewAnonymousPublisher(Nominal, TheSubject)
    \/ \E memory_ok \in BOOLEAN : PublishAttempt(TheSubject, Pattern(2), memory_ok)
    \/ \E memory_ok \in BOOLEAN : AnonymousAttempt(Pattern(2), memory_ok)
    \/ \E memory_ok \in BOOLEAN : SendRequest(TheService, Pattern(2), NodeA, memory_ok)

SpecAttempt == InitNode /\ [][NextAttempt]_vars

\* The next_transfer_id of the sender a call of kind `kind` with key `key`
\* goes through, in node n and application a.
NextTransferId(n, a, kind, key) ==
    CASE kind = "publish" -> get(n.publishers, key).next_transfer_id
      [] kind = "send_request" -> get(n.requesters, key).next_transfer_id
      [] kind = "anonymous_send" -> a.anonymous_publisher.next_transfer_id

SendKinds == {"publish", "send_request", "anonymous_send"}

\* C37: every call of send_payload of a Publisher, an AnonymousPublisher or a
\* Requester hands the transmitter the sender's next_transfer_id and leaves
\* it advanced by 1 modulo 32, whether the push succeeds or fails; so a
\* successful send that follows a failed one of the same sender carries the
\* failed transfer id plus 1 modulo 32.
C37_TransferIdConsumed ==
    [][call'.kind \in SendKinds /\ call'.ret.kind # "Panic" =>
        /\ call'.transfer.transfer_id
                = NextTransferId(this_node, app, call'.kind, call'.key)
        /\ NextTransferId(this_node', app', call'.kind, call'.key)
                = (NextTransferId(this_node, app, call'.kind, call'.key) + 1) % 32
        /\ (/\ call.kind = call'.kind
            /\ call.key = call'.key
            /\ call.ret = ErrOutOfMemory
            /\ call'.ret.kind = "Ok")
           => call'.transfer.transfer_id = (call.transfer.transfer_id + 1) % 32]_vars

\* The first publish failed and the second was queued with transfer id 1,
\* and the requester and the anonymous publisher have each had a failed
\* send.
C37_Witness ==
    /\ call.kind = "publish"
    /\ call.ret.kind = "Ok"
    /\ call.transfer.transfer_id = 1
    /\ app.published[TheSubject] = 2
    /\ this_node.transmitter = <<call.transfer>>
    /\ contains_key(this_node.requesters, TheService)
    /\ get(this_node.requesters, TheService).next_transfer_id = 1
    /\ app.anonymous_publisher # NoPublisher
    /\ app.anonymous_publisher.next_transfer_id = 1
    /\ app.transmitter = <<>>

(***************************************************************************)
(* Subscribing again while transfers are in progress                       *)
(***************************************************************************)
\* The sessions of r in the subscriptions other than that of a kind and port.
SessionsElsewhere(r, kind, port_id) ==
    {s \in Sessions(r) : <<s[1], s[2]>> # <<kind, port_id>>}

\* C38: a successful subscribe on a (kind, port) that is subscribed leaves
\* the subscription for it without sessions and error_count as it was, and
\* the sessions of all other subscriptions as they were; a frame with
\* start = 0 that then arrives from a source whose transfer was in progress
\* is dropped: accept returns Ok(None), counts nothing and the source has no
\* session.
C38_ResubscribeDiscards ==
    [][/\ (/\ call'.kind = "subscribe"
           /\ <<call'.transfer_kind, call'.port_id>> \in SubscribedPorts(rx)
           /\ call'.ret # ErrOutOfMemory)
          => /\ in_progress(rx', call'.transfer_kind, call'.port_id) = {}
             /\ <<call'.transfer_kind, call'.port_id>> \in SubscribedPorts(rx')
             /\ rx'.error_count = rx.error_count
             /\ rx'.transfer_count = rx.transfer_count
             /\ SessionsElsewhere(rx', call'.transfer_kind, call'.port_id)
                    = SessionsElsewhere(rx, call'.transfer_kind, call'.port_id)
       /\ (/\ call.kind = "subscribe"
           /\ call.ret # ErrOutOfMemory
           /\ AcceptStep
           /\ FrameSlot = {<<call.transfer_kind, call.port_id, FrameSource>>}
           /\ FrameSource \in call.in_progress
           /\ ~FrameTail.start)
          => /\ call'.ret = OkNone
             /\ rx'.error_count = rx.error_count
             /\ rx'.transfer_count = rx.transfer_count
             /\ FrameSource \notin in_progress(rx', call.transfer_kind, call.port_id)]_vars

\* The subject was subscribed again while node A's transfer on it was in
\* progress: the new subscription has no session, no error is counted, and
\* the session of node A in the subscription for the other subject stands.
C38_Witness ==
    /\ call.kind = "subscribe"
    /\ call.transfer_kind = "Message" /\ call.port_id = TheSubject
    /\ call.replaced
    /\ call.in_progress = {NodeA}
    /\ in_progress(rx, "Message", TheSubject) = {}
    /\ <<"Message", TheSubject>> \in SubscribedPorts(rx)
    /\ in_progress(rx, "Message", TheService) = {NodeA}
    /\ rx.error_count = 0

(***************************************************************************)
(* Requesters and response subscriptions                                   *)
(***************************************************************************)
\* C39: in every state of the node a response subscription for a service
\* exists in the receiver if and only if the node holds a requester for
\* the service.
C39_RequesterPaired ==
    \A service \in NodeServices :
        find_subscription(rx.subscriptions_response, service) # 0
            <=> contains_key(this_node.requesters, service)

\* What holds: a service that has a requester has a response subscription.
C39_RequesterSubscribed ==
    \A service \in NodeServices :
        contains_key(this_node.requesters, service)
            => find_subscription(rx.subscriptions_response, service) # 0

(***************************************************************************)
(* What accept returns: subscriptions of the three kinds made and removed  *)
(* while two nodes' three-frame messages, a second transfer of one of      *)
(* them, and single-frame requests and responses for this node and for     *)
(* another arrive in any order.                                            *)
(***************************************************************************)
MatchPorts ==
    {<<"Message", TheSubject>>, <<"Request", TheService>>, <<"Response", TheService>>}

\* The frames of node A's and node B's 13-byte messages, the first frame of
\* another transfer of node A, a request and a response to this node, a
\* request and a response to another node, and a message on a subject that
\* is not subscribed.
MatchFrames ==
    MessageFrames(NodeA) \cup MessageFrames(NodeB)
        \cup {[id |-> make_can_id(message_header(NodeA)), data |-> OtherTransferStart],
              [id |-> make_can_id(service_header("Request", LocalId)), data |-> SingleFrame],
              [id |-> make_can_id(service_header("Response", LocalId)), data |-> SingleFrame],
              [id |-> make_can_id(service_header("Request", LocalId + 1)),
               data |-> SingleFrame],
              [id |-> make_can_id(service_header("Response", LocalId + 1)),
               data |-> SingleFrame],
              [id |-> make_can_id(port_header("Message", TheService, NodeA, FALSE)),
               data |-> SingleFrame]}

NextMatch ==
    \/ \E port \in MatchPorts : \E settings \in SubscriptionSettings(port[1]) :
            SubscribePort(port[1], port[2], settings[1], settings[2], TRUE)
    \/ \E port \in MatchPorts : UnsubscribePort(port[1], port[2])
    \/ \E bus_frame \in MatchFrames : Accept(bus_frame, "ok")

SpecMatch == Init /\ [][NextMatch]_vars

\* The bytes receiver r has buffered for a (kind, port, source) at a time:
\* those of the session the expiry step leaves, none without one.
Buffered(r, slot, time) ==
    LET found == {s \in Sessions(clean_expired_sessions(r, time)) :
                    <<s[1], s[2], s[3]>> = slot}
    IN  IF found = {} THEN <<>> ELSE (CHOOSE s \in found : TRUE)[4].buildup.transfer

\* C40: a transfer returned by accept has the kind and port of a
\* subscription that existed when the call was made, a payload no longer
\* than that subscription's payload_size_max and, when it is a request or a
\* response, this node as its destination; it has the source and transfer id
\* of the frame that completed it, and its payload is the bytes buffered for
\* that source followed by the frame's, less the CRC of a multi-frame
\* transfer.  The bytes buffered for a source are those of the frames
\* accept took for it, in their order: a session that an accept leaves
\* changed has the frame's source and transfer id and holds what was
\* buffered for them followed by the bytes of the frame.
C40_ReturnedMatchesSubscription ==
    [][AcceptStep =>
        /\ call'.ret.kind = "OkSome" =>
            LET transfer == call'.ret.transfer
                kind == header_kind(transfer.header)
                port_id == header_port_id(transfer.header)
                subscriptions == subscriptions_for_kind(rx, kind)
                i == find_subscription(subscriptions, port_id)
                slot == <<kind, port_id, transfer.header.source>>
                received == Buffered(rx, slot, call'.frame.timestamp)
                                \o WithoutTail(call'.frame.data)
            IN  /\ i # 0
                /\ Len(transfer.payload) <= subscriptions[i].payload_size_max
                /\ kind # "Message" => transfer.header.kind.destination = rx.id
                /\ transfer.header = parse_can_id(call'.frame.id).header
                /\ transfer.transfer_id = FrameTail.transfer_id
                /\ FrameTail.end
                /\ transfer.payload =
                        IF Buffered(rx, slot, call'.frame.timestamp) = <<>>
                        THEN received
                        ELSE SubSeq(received, 1, Len(received) - 2)
        /\ \A s \in Sessions(rx') \ Sessions(rx) :
            /\ FrameSlot = {<<s[1], s[2], s[3]>>}
            /\ s[4].buildup.transfer_id = FrameTail.transfer_id
            /\ s[4].buildup.transfer
                    = Buffered(rx, <<s[1], s[2], s[3]>>, call'.frame.timestamp)
                        \o WithoutTail(call'.frame.data)
            /\ Buffered(rx, <<s[1], s[2], s[3]>>, call'.frame.timestamp) # <<>>
                    => \E old \in Sessions(rx) :
                            /\ <<old[1], old[2], old[3]>> = <<s[1], s[2], s[3]>>
                            /\ old[4].buildup.transfer_id = FrameTail.transfer_id]_vars

\* Node A's 13-byte message came back from the accept of its third frame
\* while the receiver held the session of node B's message and had returned
\* a transfer before.
C40_Witness ==
    /\ call.kind = "accept"
    /\ call.ret.kind = "OkSome"
    /\ call.ret.transfer.header = message_header(NodeA)
    /\ call.ret.transfer.payload = Pattern(13)
    /\ call.frame.data = TransferFrames[3]
    /\ in_progress(rx, "Message", TheSubject) = {NodeB}
    /\ rx.transfer_count = 2

====
